---------------------------- MODULE Spec2Model ----------------------------
(***************************************************************************)
(* A model of meapi's validation utilities (get_contacts, get_calls), of  *)
(* its model layer (MeModel, Profile, Comment, Notification) and of the    *)
(* client's get_profile, get_my_profile and block_numbers.                 *)
(*                                                                         *)
(* Python values are records [ty, s]: ty is the Python type and s the text *)
(* str() gives for the value, so that str(555) and "555" differ as values  *)
(* and agree as strings, exactly as in the interpreter.                    *)
(***************************************************************************)
EXTENDS Integers, Sequences, FiniteSets, TLC

VARIABLES
    server,   \* the backend's stored profiles: uuid -> raw JSON fields
    prof,     \* the Profile instance's __dict__: attribute name -> value
    plast,    \* what the last operation on the Profile did
    pops,     \* operations performed so far
    minst,    \* an instance of another model: its class and its __dict__
    mlast,    \* what the last assignment on that instance did
    vFn,      \* which validator the caller uses: "contacts" | "calls"
    vArg,     \* the list as the caller built it (a snapshot, never written)
    vMem,     \* the caller's list object as it is now (get_calls writes into its dicts)
    vRes,     \* outcome of the first call of the validator
    vRes2,    \* outcome of the validator applied to the list it returned
    vPhase,   \* "input" | "validated" | "revalidated"
    IGNORED_KEYS, \* me_model.IGNORED_KEYS: the names already warned about
    logger,   \* the warnings _logger has emitted, in order
    thr,      \* per thread: where it is in new_from_dict, and its locals
    obj,      \* the instances a caller holds (slots "a" and "b")
    hlast,    \* what the last operation of the caller did
    hops      \* operations performed so far

pvars == <<server, prof, plast, pops>>

vvars == <<vFn, vArg, vMem, vRes, vRes2, vPhase>>

mvars == <<minst, mlast>>

hvars == <<IGNORED_KEYS, logger, thr, obj, hlast, hops>>

vars == <<server, prof, plast, pops, minst, mlast, vFn, vArg, vMem, vRes, vRes2, vPhase,
          IGNORED_KEYS, logger, thr, obj, hlast, hops>>

---------------------------------------------------------------------------
(* Python values *)

PyNone == [ty |-> "none", s |-> "None"]
PyStrV(x) == [ty |-> "str", s |-> x]
PyInt(x) == [ty |-> "int", s |-> x]
PyBool(x) == [ty |-> "bool", s |-> x]
PyTrue == PyBool("True")
PyFalse == PyBool("False")
\* datetime.date: str() gives the ISO text
PyDate(x) == [ty |-> "date", s |-> x]
\* A key that a dict does not hold (never a value a program can read).
Absent == [ty |-> "absent", s |-> ""]

\* str(v)
Str(v) == [ty |-> "str", s |-> v.s]

\* bool(v): None, 0, "" and False are falsy
Truthy(v) ==
    /\ v.ty \notin {"none", "absent"}
    /\ ~(v.ty = "int" /\ v.s = "0")
    /\ ~(v.ty = "str" /\ v.s = "")
    /\ ~(v.ty = "bool" /\ v.s = "False")

\* dict.get(k): None when the key is missing
DictGet(d, k) == IF d[k] = Absent THEN PyNone ELSE d[k]

---------------------------------------------------------------------------
(* Entries of the lists given to the validators *)

EntryKeys == {"name", "phone_number", "type", "duration", "tag", "called_at"}

EmptyDict == [k \in EntryKeys |-> Absent]

\* An entry that is not a dict (isinstance(entry, dict) is false)
NonDict == [isdict |-> FALSE, d |-> EmptyDict]

MkEntry(dd) == [isdict |-> TRUE, d |-> dd]

MaxLen == 2

ContactEntries ==
    {NonDict} \cup
    {MkEntry([EmptyDict EXCEPT !["name"] = n, !["phone_number"] = p]) :
        n \in {Absent, PyStrV(""), PyStrV("A")},
        p \in {Absent, PyInt("0"), PyInt("555"), PyStrV("")}}

CallEntries ==
    {NonDict} \cup
    {MkEntry([name |-> n, phone_number |-> p, type |-> t, duration |-> du,
              tag |-> tg, called_at |-> ca]) :
        n \in {Absent, PyStrV("A")},
        p \in {Absent, PyInt("0"), PyInt("555")},
        t \in {PyStrV("missed"), PyStrV("video")},
        du \in {Absent, PyInt("0"), PyInt("7")},
        tg \in {Absent},
        ca \in {Absent, PyStrV("2021-01-01T00:00:00Z")}}

---------------------------------------------------------------------------
(* get_contacts *)

\* get_contacts with the phone_number test forgotten
ContactKept_NameOnly(contact) ==
    /\ contact.isdict
    /\ Truthy(DictGet(contact.d, "name"))

ContactKept(contact) ==
    /\ contact.isdict
    /\ Truthy(DictGet(contact.d, "name"))
    /\ Truthy(DictGet(contact.d, "phone_number"))

get_contacts(contacts) ==
    LET contacts_list == SelectSeq(contacts, ContactKept)
    IN  IF contacts_list = <<>>
        THEN [st |-> "MeException", list |-> <<>>, mem |-> contacts,
              msg |-> "Valid contacts not found!"]
        ELSE [st |-> "return", list |-> contacts_list, mem |-> contacts, msg |-> ""]

---------------------------------------------------------------------------
(* get_calls *)

CallTypes == {PyStrV("incoming"), PyStrV("missed"), PyStrV("outgoing")}
DefaultDuration == PyInt("123")
DefaultCalledAt == PyStrV("2022-04-18T05:59:07Z")

\* get_calls with the str() of line 27 forgotten
CallName_NoStr(d) ==
    IF (~Truthy(DictGet(d, "name")) \/ ~Truthy(DictGet(d, "phone_number")))
       /\ Truthy(DictGet(d, "phone_number"))
    THEN [d EXCEPT !["name"] = DictGet(d, "phone_number")]
    ELSE d

\* Lines 25-27: the name defaults to str(phone_number)
CallName(d) ==
    IF (~Truthy(DictGet(d, "name")) \/ ~Truthy(DictGet(d, "phone_number")))
       /\ Truthy(DictGet(d, "phone_number"))
    THEN [d EXCEPT !["name"] = Str(DictGet(d, "phone_number"))]
    ELSE d

\* get_calls raising for the phone number only when the name is missing too
CallNoPhone_NameMissingToo(d) ==
    ~Truthy(DictGet(d, "name")) /\ ~Truthy(DictGet(d, "phone_number"))

\* Lines 25-29: no phone number
CallNoPhone(d) ==
    (~Truthy(DictGet(d, "name")) \/ ~Truthy(DictGet(d, "phone_number")))
    /\ ~Truthy(DictGet(d, "phone_number"))

\* get_calls with the type check of lines 30-31 left out
CallBadType_Never(d) == FALSE

\* Lines 30-31: the type is none of the three
CallBadType(d) == DictGet(d, "type") \notin CallTypes

CallDuration(d) ==
    IF ~Truthy(DictGet(d, "duration")) THEN [d EXCEPT !["duration"] = DefaultDuration] ELSE d

CallTag(d) ==
    IF ~Truthy(DictGet(d, "tag")) THEN [d EXCEPT !["tag"] = PyNone] ELSE d

\* Lines 36-38: the append is inside the branch that defaults called_at
CallAppended(d) == ~Truthy(DictGet(d, "called_at"))

CallCalledAt(d) ==
    IF ~Truthy(DictGet(d, "called_at")) THEN [d EXCEPT !["called_at"] = DefaultCalledAt] ELSE d

\* The messages of the three MeExceptions of get_calls (lines 29, 31, 40)
NoPhoneMsg == "Phone number must be provided!!"
BadTypeMsg == "No such call type"
NoCallsMsg == "Valid calls not found!"

\* One turn of the loop at lines 23-38 on entry `call`: the entry as the
\* turn leaves it, whether the turn raised, whether it appended the entry.
CallTurn(call) ==
    IF ~call.isdict THEN [call |-> call, raised |-> FALSE, append |-> FALSE, msg |-> ""]
    ELSE IF CallNoPhone(call.d)
         THEN [call |-> call, raised |-> TRUE, append |-> FALSE, msg |-> NoPhoneMsg]
    ELSE LET d1 == CallName(call.d) IN
         IF CallBadType(d1)
         THEN [call |-> MkEntry(d1), raised |-> TRUE, append |-> FALSE, msg |-> BadTypeMsg]
         ELSE LET d3 == CallTag(CallDuration(d1)) IN
              [call |-> MkEntry(CallCalledAt(d3)), raised |-> FALSE,
               append |-> CallAppended(d3), msg |-> ""]

RECURSIVE CallsLoop(_, _, _)
CallsLoop(calls, i, calls_list) ==
    IF i > Len(calls)
    THEN IF calls_list = <<>>
         THEN [st |-> "MeException", list |-> <<>>, mem |-> calls, msg |-> NoCallsMsg]
         ELSE [st |-> "return", list |-> calls_list, mem |-> calls, msg |-> ""]
    ELSE LET t == CallTurn(calls[i])
             mem == [calls EXCEPT ![i] = t.call]
         IN  IF t.raised
             THEN [st |-> "MeException", list |-> <<>>, mem |-> mem, msg |-> t.msg]
             ELSE CallsLoop(mem, i + 1,
                            IF t.append THEN Append(calls_list, t.call) ELSE calls_list)

get_calls(calls) == CallsLoop(calls, 1, <<>>)

---------------------------------------------------------------------------
(* Instances of the models: __dict__ as a function from names to values *)

\* getattr(obj, name, default)
GetAttr(d, k, default) == IF k \in DOMAIN d /\ d[k] # Absent THEN d[k] ELSE default

\* object.__setattr__
ObjectSetAttr(d, key, value) == [d EXCEPT ![key] = value]

InitDoneKey == "_MeModel__init_done"

\* The write guard left open
MeModelGuard_Never(d) == FALSE

\* MeModel.__setattr__, line 141: the write guard
MeModelGuard(d) == Truthy(GetAttr(d, InitDoneKey, PyNone))

\* MeModel.__setattr__: [raised, d]
MeModel__setattr__(d, key, value) ==
    IF MeModelGuard(d)
    THEN [raised |-> TRUE, d |-> d]
    ELSE [raised |-> FALSE, d |-> ObjectSetAttr(d, key, value)]

---------------------------------------------------------------------------
(* AuthData, Contact, Call, Location, Notification, Comment *)

Classes == {"AuthData", "Contact", "Call", "Location", "Notification", "Comment"}

\* The assignments of each __init__, in order (of Notification and Comment,
\* the ones the model follows); the last one sets the class's init-done flag.
InitOrder(cls) ==
    CASE cls = "AuthData" -> <<"access", "refresh", "pwd_token", InitDoneKey>>
      [] cls = "Contact" ->
            <<"phone_number", "name", "date_of_birth", "country_code", InitDoneKey>>
      [] cls = "Call" ->
            <<"name", "phone_number", "tag", "type", "called_at", "duration", InitDoneKey>>
      [] cls = "Location" -> <<"location_longitude", "location_latitude", InitDoneKey>>
      [] cls = "Notification" ->
            <<"_Notification__client", "id", "is_read", "sender", "status", "name",
              "_Notification__init_done">>
      [] cls = "Comment" ->
            <<"like_count", "status", "message", "is_liked", "id", "profile_uuid",
              "comment_likes", "_Comment__meobj", "_Comment__my_comment",
              "_Comment__init_done">>

\* The names an assignment may use on an instance: what __init__ set, the
\* base class's flag, and a name the class does not know
ModelKeys(cls) == {InitOrder(cls)[i] : i \in 1..Len(InitOrder(cls))}
                    \cup {InitDoneKey, "nickname"}

\* The names each class lets a caller assign once constructed
Mutable(cls) ==
    CASE cls = "Notification" -> {"is_read"}
      [] cls = "Comment" -> {"message", "status", "like_count", "comment_likes"}
      [] OTHER -> {}

\* Comment.__setattr__ lines 161-163 and Notification.__setattr__ lines
\* 107-109: the class's own guard refuses the assignment
ClassGuard(cls, d, key) ==
    \/ cls = "Comment"
         /\ Truthy(GetAttr(d, "_Comment__init_done", PyNone))
         /\ key \notin {"message", "status", "like_count", "comment_likes"}
    \/ cls = "Notification"
         /\ Truthy(GetAttr(d, "_Notification__init_done", PyNone))
         /\ key # "is_read"

\* instance.<key> = value, through the class's __setattr__ and then MeModel's
Model__setattr__(cls, d, key, value) ==
    IF ClassGuard(cls, d, key) THEN [raised |-> TRUE, d |-> d]
    ELSE MeModel__setattr__(d, key, value)

\* The value a field is hydrated with
Hydrated(key) ==
    CASE key \in {"like_count", "id", "phone_number", "duration"} -> PyInt("1")
      [] key \in {"is_read", "is_liked"} -> PyFalse
      [] key \in {"tag", "pwd_token", "comment_likes"} -> PyNone
      [] key \in {InitDoneKey, "_Notification__init_done", "_Comment__init_done",
                  "_Comment__my_comment"} -> PyTrue
      [] OTHER -> PyStrV("A")

\* __init__: its assignments one after the other, each through __setattr__
RECURSIVE Construct(_, _, _)
Construct(cls, d, i) ==
    IF i > Len(InitOrder(cls)) THEN [raised |-> FALSE, d |-> d]
    ELSE LET key == InitOrder(cls)[i]
             r == Model__setattr__(cls, d, key, Hydrated(key))
         IN  IF r.raised THEN r ELSE Construct(cls, r.d, i + 1)

NewInstance(cls) == Construct(cls, [k \in ModelKeys(cls) |-> Absent], 1)

---------------------------------------------------------------------------
(* helpers.parse_date(date_str, date_only=True) on well-formed text *)

parse_date(v) == IF v = PyNone THEN PyNone ELSE PyDate(Str(v).s)

---------------------------------------------------------------------------
(* Profile *)

FlagKey == "_Profile__my_profile"

WhiteList ==
    {"country_code", "date_of_birth", "device_type", "login_type", "email", "first_name",
     "last_name", "slogan", "gender", "profile_picture_url", "facebook_url"}

\* The attributes Profile.__init__ sets that the model follows
ProfileFields ==
    {"uuid", "phone_number", "profile_picture", "carrier", "country_code",
     "date_of_birth", "device_type", "login_type", "email", "first_name", "last_name",
     "slogan", "gender", "facebook_url", "google_url", "location_name"}

\* Every name an assignment may use: the fields, the ownership flag, a
\* whitelisted name that is no attribute, and a name no model knows.
ProfileKeys == ProfileFields \cup WhiteList \cup {FlagKey, "nickname"}

\* Profile.__init__ (through new_from_dict): no super().__init__() call, so
\* _MeModel__init_done is never set on a Profile.
ProfileInit(raw, my_profile) ==
    [k \in ProfileKeys |->
        IF k = FlagKey THEN my_profile
        ELSE IF k = "date_of_birth" THEN parse_date(raw[k])
        ELSE IF k \in ProfileFields THEN raw[k]
        ELSE Absent]

NoProfile == [k \in ProfileKeys |-> Absent]

---------------------------------------------------------------------------
(* The client (Me) and the backend *)

ClientUuid == "u-me"
Uuids == {"u-me", "u-other"}

Server0 ==
    [u \in Uuids |->
        [k \in ProfileFields |->
            CASE k = "uuid" -> PyStrV(u)
              [] k = "phone_number" -> PyInt("555")
              [] k = "profile_picture" -> PyStrV("https://hosted/pic.jpg")
              [] k = "carrier" -> PyStrV("A")
              [] k = "country_code" -> PyStrV("IL")
              [] k = "date_of_birth" -> PyStrV("1990-01-01")
              [] k = "device_type" -> PyStrV("android")
              [] k = "login_type" -> PyStrV("email")
              [] k = "email" -> PyNone
              [] k = "first_name" -> PyStrV("A")
              [] k = "last_name" -> PyNone
              [] k = "slogan" -> PyNone
              [] k = "gender" -> PyStrV("M")
              [] OTHER -> PyNone]]

\* What get_profile may be called with: a uuid string, a User, a Contact
\* whose user is a User or None
ProfileArgs ==
    {[kind |-> k, uuid |-> PyStrV(u)] : k \in {"str", "User", "Contact"}, u \in Uuids}
    \cup {[kind |-> "Contact", uuid |-> PyNone]}

\* Lines 53-57 of get_profile: the uuid a Contact or a User stands for; a
\* Contact without a user stays the Contact, and str() of it is no uuid
RequestedUuid(arg) ==
    IF arg.kind = "Contact" /\ ~Truthy(arg.uuid) THEN PyStrV("<Contact>") ELSE arg.uuid

\* get_profile with line 59-60 left out: no profile is marked as the caller's
get_profile_NeverMine(srv, uuid) == ProfileInit(srv[uuid.s], PyFalse)

\* Account.get_profile, the raw fetch having answered
get_profile(srv, uuid) ==
    ProfileInit(srv[uuid.s], IF uuid = PyStrV(ClientUuid) THEN PyTrue ELSE PyFalse)

\* Account.get_my_profile
get_my_profile(srv) == ProfileInit(srv[ClientUuid], PyTrue)

UpdateParams ==
    {"first_name", "last_name", "email", "gender", "slogan", "profile_picture",
     "date_of_birth", "location_name", "carrier", "device_type", "login_type",
     "facebook_url", "google_url"}

\* The texts of the model that each pattern of update_profile_details matches
DateRegex(v) == Str(v).s \in {"1990-01-01", "1997-05-15"}
DigitsRegex(v) == Str(v).s \in {"123", "555"}
EmailRegex(v) == Str(v).s \in {"b@x.io"}

Upper(t) == IF t = "m" THEN "M" ELSE IF t = "f" THEN "F" ELSE t

\* Lines 153-181: TRUE when the checks raise MeException
UpdateRejects(key, value) ==
    \/ key = "device_type"
         /\ value \notin {PyStrV("android"), PyStrV("ios"), PyNone}
    \/ key = "date_of_birth" /\ value # PyNone /\ ~DateRegex(value)
    \/ key \in {"facebook_url", "google_url"} /\ value # PyNone /\ ~DigitsRegex(value)
    \/ key = "profile_picture" /\ value # PyNone /\ value.ty # "str"
    \/ key = "gender"
         /\ value \notin {PyStrV("M"), PyStrV("m"), PyStrV("F"), PyStrV("f"), PyNone}
    \/ key \in {"first_name", "last_name", "slogan", "location_name"} /\ value.ty # "str"
    \/ key = "email" /\ value # PyNone /\ ~EmailRegex(value)
    \/ key = "login_type"
         /\ value \notin {PyStrV("email"), PyStrV("apple"), PyNone}

\* Lines 163-172: the value the request carries
UpdateBodyValue(key, value) ==
    IF key = "profile_picture" /\ value # PyNone THEN PyStrV("https://hosted/new.jpg")
    ELSE IF key = "gender" /\ Truthy(value) THEN PyStrV(Upper(Str(value).s))
    ELSE value

\* What the backend may do with a PATCH of one field
ServerChoices == {"accept", "keep", "canon", "error"}

ServerStores(cur, bodyval, c) ==
    IF c = "accept" THEN bodyval
    ELSE IF c = "canon" /\ bodyval # PyNone THEN Str(bodyval)
    ELSE cur

\* Account.update_profile_details(**{key: value}):
\* [out, flag, profile, srv, sent], sent the bodies of the requests made
update_profile_details(srv, key, value, c) ==
    LET fail(o) == [out |-> o, flag |-> FALSE, profile |-> NoProfile, srv |-> srv,
                    sent |-> <<>>]
    IN
    IF key \notin UpdateParams THEN fail("TypeError")
    ELSE IF value # PyFalse /\ UpdateRejects(key, value) THEN fail("MeException")
    ELSE
      LET has == value # PyFalse
          bodyval == UpdateBodyValue(key, value)
          body == IF has THEN <<[key |-> key, value |-> bodyval]>> ELSE <<>>
      IN
      IF c = "error"
      THEN [out |-> "MeApiException", flag |-> FALSE, profile |-> NoProfile,
            srv |-> srv, sent |-> <<body>>]
      ELSE
        LET res == IF has
                   THEN [srv[ClientUuid] EXCEPT
                            ![key] = ServerStores(srv[ClientUuid][key], bodyval, c)]
                   ELSE srv[ClientUuid]
            successes == IF has /\ res[key] = bodyval THEN 1 ELSE 0
        IN  [out |-> "return",
             flag |-> (successes = Len(body)),
             profile |-> ProfileInit(res, PyTrue),
             srv |-> [srv EXCEPT ![ClientUuid] = res],
             sent |-> <<body>>]

\* Line 290, with the flag None: no ownership is established
ProfileUnbound(d) == GetAttr(d, FlagKey, PyNone) = PyNone

\* Line 291 with every profile taken for the caller's own
ProfileIsMine_Always(d) == TRUE

\* Line 291
ProfileIsMine(d) == Truthy(d[FlagKey])

\* Lines 294-296 with the parameters of the update call taken for the whitelist
Protected_ByUpdateParams(key) == key \notin UpdateParams

\* Lines 294-296: the name is outside the whitelist
Protected(key) == key \notin WhiteList

\* Line 298
UpdateConfirmed(res, key, value) ==
    (res.flag /\ Str(GetAttr(res.profile, key, PyNone)) = Str(value))
    \/ key = "profile_picture"

\* Profile.__setattr__: [out, d, srv, upd, sent, flag, echo]; upd lists the
\* update calls made through the client, sent the request bodies that left,
\* flag and echo what the update call returned (the success flag, and the raw
\* value the backend answered for the field).
Profile__setattr__(d, srv, key, value, c) ==
    LET done(o, dd) == [out |-> o, d |-> dd, srv |-> srv, upd |-> <<>>, sent |-> <<>>,
                        flag |-> FALSE, echo |-> Absent]
        super(v) == LET r == MeModel__setattr__(d, key, v)
                    IN  done(IF r.raised THEN "MeException" ELSE "ok", r.d)
    IN
    IF ~ProfileUnbound(d)
    THEN IF ProfileIsMine(d)
         THEN IF key = FlagKey THEN super(value)
              ELSE IF Protected(key) THEN done("MeException", d)
              ELSE
                LET res == update_profile_details(srv, key, value, c)
                    call == <<[key |-> key, value |-> value]>>
                    ret(o, dd) ==
                        [out |-> o, d |-> dd, srv |-> res.srv, upd |-> call,
                         sent |-> res.sent, flag |-> res.flag,
                         echo |-> IF res.out = "return" THEN res.srv[ClientUuid][key]
                                  ELSE Absent]
                IN
                IF res.out # "return" THEN ret(res.out, d)
                ELSE IF UpdateConfirmed(res, key, value)
                THEN LET v == IF key = "date_of_birth" THEN parse_date(value) ELSE value
                         r == MeModel__setattr__(d, key, v)
                     IN  ret(IF r.raised THEN "MeException" ELSE "ok", r.d)
                ELSE IF GetAttr(d, key, Absent) = Absent THEN ret("AttributeError", d)
                ELSE ret("MeException", d)
         ELSE done("MeException", d)
    ELSE super(value)

\* refresh() without the flag reset of line 283
Profile_refresh_KeepFlag(d, srv, fetch) ==
    IF fetch = "error" \/ GetAttr(d, "uuid", PyNone).s \notin Uuids
    THEN [out |-> "MeApiException", ret |-> PyNone, d |-> d, fetched |-> NoProfile]
    ELSE LET fetched == get_profile(srv, d["uuid"])
         IN  [out |-> "ok",
              ret |-> IF Truthy(GetAttr(d, FlagKey, PyNone)) THEN PyTrue ELSE PyFalse,
              d |-> [fetched EXCEPT ![FlagKey] = d[FlagKey]], fetched |-> fetched]

\* Profile.refresh: [out, ret, d, fetched]; fetch is whether the client's
\* get_profile answers ("ok") or raises ("error")
Profile_refresh(d, srv, fetch) ==
    LET s1 == Profile__setattr__(d, srv, FlagKey, PyNone, "keep")
    IN
    IF s1.out # "ok"
    THEN [out |-> s1.out, ret |-> PyNone, d |-> s1.d, fetched |-> NoProfile]
    ELSE IF fetch = "error" \/ GetAttr(s1.d, "uuid", PyNone).s \notin Uuids
    THEN [out |-> "MeApiException", ret |-> PyNone, d |-> s1.d, fetched |-> NoProfile]
    ELSE
      LET fetched == get_profile(srv, s1.d["uuid"])
      IN  \* self.__dict__ = deepcopy(...) goes through __setattr__ with the flag
          \* None, hence through MeModel.__setattr__
          IF MeModelGuard(s1.d)
          THEN [out |-> "MeException", ret |-> PyNone, d |-> s1.d, fetched |-> fetched]
          ELSE [out |-> "ok",
                ret |-> IF Truthy(GetAttr(fetched, FlagKey, PyNone)) THEN PyTrue ELSE PyFalse,
                d |-> fetched, fetched |-> fetched]

\* Profile.name (line 267): [out, ret]. `+` binds tighter than `or`, so the
\* expression is  first_name or (('' + (sep + last_name)) or '')
Profile_name(d) ==
    LET first_name == d["first_name"]
        last_name == d["last_name"]
    IN  IF Truthy(first_name) THEN [out |-> "ok", ret |-> Str(first_name)]
        ELSE IF last_name.ty # "str" THEN [out |-> "TypeError", ret |-> PyNone]
        ELSE [out |-> "ok", ret |-> Str(last_name)]

---------------------------------------------------------------------------
(* The holder of a Profile: assignments, refresh, and the backend changing *)

MaxOps == 3

\* The names assigned to
TryKeys == ProfileKeys

\* The values assigned, per name: accepted ones and ones the checks refuse
TryValues(key) ==
    CASE key = "first_name" -> {PyStrV("B"), PyNone}
      [] key = "email" -> {PyStrV("b@x.io"), PyStrV("bad")}
      [] key = "gender" -> {PyStrV("F"), PyStrV("m"), PyStrV("x")}
      [] key = "date_of_birth" -> {PyStrV("1997-05-15"), PyStrV("15/05/1997")}
      [] key = "device_type" -> {PyStrV("ios"), PyStrV("pc")}
      [] key = "login_type" -> {PyStrV("apple"), PyStrV("sms")}
      [] key = "facebook_url" -> {PyStrV("123"), PyInt("123"), PyStrV("abc")}
      [] key = "phone_number" -> {PyInt("123")}
      [] key = "uuid" -> {PyStrV("u-other")}
      [] key = FlagKey -> {PyTrue, PyFalse, PyNone}
      [] OTHER -> {PyStrV("B")}

NoOp ==
    [op |-> "none", key |-> "", value |-> PyNone, out |-> "ok", ret |-> PyNone,
     upd |-> <<>>, sent |-> <<>>, flag |-> FALSE, echo |-> Absent,
     before |-> NoProfile]

\* No Profile is in play
PIdle ==
    /\ server = <<>>
    /\ prof = <<>>
    /\ plast = <<>>
    /\ pops = 0

\* The instance was handed out by get_my_profile() or get_profile(uuid)
PInit ==
    /\ server = Server0
    /\ prof \in {get_my_profile(Server0)} \cup {get_profile(Server0, PyStrV(u)) : u \in Uuids}
    /\ plast = NoOp
    /\ pops = 0

\* instance.<key> = value
SetAttr ==
    /\ pops < MaxOps
    /\ \E key \in TryKeys : \E value \in TryValues(key) : \E c \in ServerChoices :
         LET r == Profile__setattr__(prof, server, key, value, c)
         IN  /\ prof' = r.d
             /\ server' = r.srv
             /\ plast' = [op |-> "setattr", key |-> key, value |-> value, out |-> r.out,
                          ret |-> PyNone, upd |-> r.upd, sent |-> r.sent,
                          flag |-> r.flag, echo |-> r.echo,
                          before |-> prof]
    /\ pops' = pops + 1
    /\ UNCHANGED <<vvars, mvars, hvars>>

\* instance.refresh()
Refresh ==
    /\ pops < MaxOps
    /\ \E fetch \in {"ok", "error"} :
         LET r == Profile_refresh(prof, server, fetch)
         IN  /\ prof' = r.d
             /\ plast' = [op |-> "refresh", key |-> "", value |-> PyNone, out |-> r.out,
                          ret |-> r.ret, upd |-> <<>>, sent |-> <<>>,
                          flag |-> FALSE, echo |-> Absent,
                          before |-> prof]
    /\ pops' = pops + 1
    /\ UNCHANGED <<server, vvars, mvars, hvars>>

\* The profile changes on the backend from outside the instance
ServerEdit ==
    /\ pops < MaxOps
    /\ \E u \in Uuids : \E v \in {PyStrV("Z")} :
         /\ server[u]["first_name"] # v
         /\ server' = [server EXCEPT ![u]["first_name"] = v]
    /\ plast' = [NoOp EXCEPT !.op = "edit"]
    /\ pops' = pops + 1
    /\ UNCHANGED <<prof, vvars, mvars, hvars>>

\* instance.name
ReadName ==
    /\ pops < MaxOps
    /\ LET r == Profile_name(prof)
       IN  plast' = [NoOp EXCEPT !.op = "name", !.out = r.out, !.ret = r.ret,
                                 !.before = prof]
    /\ pops' = pops + 1
    /\ UNCHANGED <<server, prof, vvars, mvars, hvars>>

\* instance = client.get_profile(arg): the raw fetch answers or raises
GetProfile ==
    /\ pops < MaxOps
    /\ \E arg \in ProfileArgs : \E fetch \in {"ok", "error"} :
         LET uuid == RequestedUuid(arg)
             raises == fetch = "error" \/ uuid.s \notin Uuids
         IN  /\ prof' = IF raises THEN prof ELSE get_profile(server, uuid)
             /\ plast' = [NoOp EXCEPT !.op = "get_profile", !.key = arg.kind,
                                      !.value = uuid, !.before = prof,
                                      !.out = IF raises THEN "MeApiException" ELSE "ok"]
    /\ pops' = pops + 1
    /\ UNCHANGED <<server, vvars, mvars, hvars>>

\* instance = client.get_my_profile()
GetMyProfile ==
    /\ pops < MaxOps
    /\ \E fetch \in {"ok", "error"} :
         /\ prof' = IF fetch = "error" THEN prof ELSE get_my_profile(server)
         /\ plast' = [NoOp EXCEPT !.op = "get_my_profile", !.before = prof,
                                  !.out = IF fetch = "error" THEN "MeApiException"
                                          ELSE "ok"]
    /\ pops' = pops + 1
    /\ UNCHANGED <<server, vvars, mvars, hvars>>

PNext == SetAttr \/ Refresh \/ ServerEdit \/ ReadName \/ GetProfile \/ GetMyProfile

VIdle ==
    /\ vFn = "none"
    /\ vArg = <<>>
    /\ vMem = <<>>
    /\ vRes = [st |-> "none", list |-> <<>>, msg |-> ""]
    /\ vRes2 = [st |-> "none", list |-> <<>>, msg |-> ""]
    /\ vPhase = "idle"

---------------------------------------------------------------------------
(* The holder of an instance of another model assigns to its attributes *)

MValues == {PyStrV("B"), PyInt("2"), PyTrue}

MNoOp == [op |-> "none", key |-> "", value |-> PyNone, out |-> "ok", before |-> <<>>]

MIdle ==
    /\ minst = <<>>
    /\ mlast = <<>>

\* An instance of some class, its construction completed
MInit ==
    /\ \E cls \in Classes :
         /\ ~NewInstance(cls).raised
         /\ minst = [cls |-> cls, d |-> NewInstance(cls).d]
    /\ mlast = MNoOp

ModelSetAttr ==
    /\ \E key \in ModelKeys(minst.cls) : \E value \in MValues :
         LET r == Model__setattr__(minst.cls, minst.d, key, value)
         IN  /\ minst' = [minst EXCEPT !.d = r.d]
             /\ mlast' = [op |-> "setattr", key |-> key, value |-> value,
                          out |-> IF r.raised THEN "MeException" ELSE "ok",
                          before |-> minst.d]
    /\ UNCHANGED <<pvars, vvars, hvars>>

MNext == ModelSetAttr

---------------------------------------------------------------------------
(* The caller of the validators *)

NoRes == [st |-> "none", list |-> <<>>, msg |-> ""]

VInit ==
    /\ vFn \in {"contacts", "calls"}
    /\ \E k \in 0..MaxLen :
         vArg \in [1..k -> IF vFn = "contacts" THEN ContactEntries ELSE CallEntries]
    /\ vMem = vArg
    /\ vRes = NoRes
    /\ vRes2 = NoRes
    /\ vPhase = "input"

ValidateContacts ==
    /\ vPhase = "input" /\ vFn = "contacts"
    /\ LET r == get_contacts(vMem)
       IN  /\ vRes' = [st |-> r.st, list |-> r.list, msg |-> r.msg]
           /\ vMem' = r.mem
    /\ vPhase' = "validated"
    /\ UNCHANGED <<vFn, vArg, vRes2>>
    /\ UNCHANGED <<pvars, mvars, hvars>>

ValidateCalls ==
    /\ vPhase = "input" /\ vFn = "calls"
    /\ LET r == get_calls(vMem)
       IN  /\ vRes' = [st |-> r.st, list |-> r.list, msg |-> r.msg]
           /\ vMem' = r.mem
    /\ vPhase' = "validated"
    /\ UNCHANGED <<vFn, vArg, vRes2>>
    /\ UNCHANGED <<pvars, mvars, hvars>>

\* The validator applied to the list it returned
RevalidateContacts ==
    /\ vPhase = "validated" /\ vFn = "contacts" /\ vRes.st = "return"
    /\ LET r == get_contacts(vRes.list)
       IN  vRes2' = [st |-> r.st, list |-> r.list, msg |-> r.msg]
    /\ vPhase' = "revalidated"
    /\ UNCHANGED <<vFn, vArg, vMem, vRes>>
    /\ UNCHANGED <<pvars, mvars, hvars>>

RevalidateCalls ==
    /\ vPhase = "validated" /\ vFn = "calls" /\ vRes.st = "return"
    /\ LET r == get_calls(vRes.list)
       IN  vRes2' = [st |-> r.st, list |-> r.list, msg |-> r.msg]
    /\ vPhase' = "revalidated"
    /\ UNCHANGED <<vFn, vArg, vMem, vRes>>
    /\ UNCHANGED <<pvars, mvars, hvars>>

VNext == ValidateContacts \/ ValidateCalls \/ RevalidateContacts \/ RevalidateCalls

---------------------------------------------------------------------------
(* MeModel: new_from_dict, as_dict, as_json, __eq__, __hash__ *)

\* The client object a model is handed (_client, _meobj)
PyClient == [ty |-> "client", s |-> "<Me>"]

PyDateTime(x) == [ty |-> "datetime", s |-> x]

\* The one well-formed '%Y-%m-%dT%H:%M:%S%z' text of the model
IsoText == "2021-01-01T00:00:00Z"

\* str() of the datetime strptime makes of IsoText
IsoTextStr == "2021-01-01 00:00:00+00:00"

\* helpers.parse_date(date_str) with date_only=False: [raised, v]; strptime
\* raises ValueError on text that is not in the 'T' format
parse_date_time(v) ==
    IF v = PyNone THEN [raised |-> FALSE, v |-> PyNone]
    ELSE IF Str(v).s = IsoText THEN [raised |-> FALSE, v |-> PyDateTime(IsoTextStr)]
    ELSE [raised |-> TRUE, v |-> PyNone]

\* A parameter of __init__ without and with a default
Req(n) == [name |-> n, required |-> TRUE, default |-> PyNone]
Opt(n, v) == [name |-> n, required |-> FALSE, default |-> v]

\* cls._init_parameters: the parameters of cls.__init__ but self, in order
InitParameters == [cls \in Classes |->
    CASE cls = "AuthData" ->
            <<Req("access"), Req("refresh"), Opt("pwd_token", PyNone)>>
      [] cls = "Contact" ->
            <<Req("phone_number"), Req("name"), Opt("date_of_birth", PyNone),
              Opt("country_code", PyNone)>>
      [] cls = "Call" ->
            <<Req("name"), Req("phone_number"), Req("call_type"),
              Req("called_at"), Req("duration"), Opt("tag", PyNone)>>
      [] cls = "Location" ->
            <<Req("latitude"), Req("longitude")>>
      [] cls = "Notification" ->
            <<Req("_client"), Req("id"), Req("created_at"),
              Req("modified_at"), Req("is_read"), Req("sender"),
              Req("status"), Req("delivery_method"),
              Req("distribution_date"), Req("message_subject"),
              Req("message_category"), Req("message_body"),
              Req("message_lang"), Req("category"),
              Opt("phone_number", PyNone), Opt("name", PyNone),
              Opt("uuid", PyNone), Opt("new_name", PyNone),
              Opt("notification_id", PyNone), Opt("profile_picture", PyNone),
              Opt("tag", PyNone)>>
      [] cls = "Comment" ->
            <<Req("_meobj"), Opt("like_count", PyNone),
              Opt("status", PyNone), Opt("message", PyNone),
              Opt("author", PyNone), Opt("is_liked", PyNone),
              Opt("id", PyNone), Opt("comments_blocked", PyNone),
              Opt("created_at", PyNone), Opt("comment_likes", PyNone),
              Opt("profile_uuid", PyNone), Opt("_my_comment", PyFalse)>>]

\* One assignment of an __init__ body: self.<attr> = <how>(<param>)
Assign(a, p, h) == [attr |-> a, param |-> p, how |-> h]

\* The bodies of the constructors, assignment by assignment; "True" is the
\* init-done flag (set by super().__init__() in others.py, by the class
\* itself in Comment and Notification)
InitBody == [cls \in Classes |->
    CASE cls = "AuthData" ->
            <<Assign("access", "access", "value"),
              Assign("refresh", "refresh", "value"),
              Assign("pwd_token", "pwd_token", "value"),
              Assign("_MeModel__init_done", "", "True")>>
      [] cls = "Contact" ->
            <<Assign("phone_number", "phone_number", "value"),
              Assign("name", "name", "value"),
              Assign("date_of_birth", "date_of_birth", "value"),
              Assign("country_code", "country_code", "value"),
              Assign("_MeModel__init_done", "", "True")>>
      [] cls = "Call" ->
            <<Assign("name", "name", "value"),
              Assign("phone_number", "phone_number", "value"),
              Assign("tag", "tag", "value"), Assign("type", "call_type", "value"),
              Assign("called_at", "called_at", "value"),
              Assign("duration", "duration", "value"),
              Assign("_MeModel__init_done", "", "True")>>
      [] cls = "Location" ->
            <<Assign("location_longitude", "longitude", "value"),
              Assign("location_latitude", "latitude", "value"),
              Assign("_MeModel__init_done", "", "True")>>
      [] cls = "Notification" ->
            <<Assign("_Notification__client", "_client", "value"),
              Assign("id", "id", "value"),
              Assign("created_at", "created_at", "parse_date"),
              Assign("modified_at", "modified_at", "parse_date"),
              Assign("is_read", "is_read", "value"),
              Assign("sender", "sender", "value"),
              Assign("status", "status", "value"),
              Assign("delivery_method", "delivery_method", "value"),
              Assign("distribution_date", "distribution_date", "parse_date"),
              Assign("message_subject", "message_subject", "value"),
              Assign("message_category", "message_category", "value"),
              Assign("message_body", "message_body", "value"),
              Assign("message_lang", "message_lang", "value"),
              Assign("name", "name", "value"), Assign("uuid", "uuid", "value"),
              Assign("category", "category", "value"),
              Assign("new_name", "new_name", "value"),
              Assign("phone_number", "phone_number", "value"),
              Assign("notification_id", "notification_id", "value"),
              Assign("profile_picture", "profile_picture", "value"),
              Assign("tag", "tag", "value"),
              Assign("_Notification__init_done", "", "True")>>
      [] cls = "Comment" ->
            <<Assign("like_count", "like_count", "value"),
              Assign("status", "status", "value"),
              Assign("message", "message", "value"),
              Assign("author", "author", "User"),
              Assign("is_liked", "is_liked", "value"), Assign("id", "id", "value"),
              Assign("profile_uuid", "profile_uuid", "value"),
              Assign("comments_blocked", "comments_blocked", "value"),
              Assign("created_at", "created_at", "parse_date"),
              Assign("comment_likes", "comment_likes", "Users"),
              Assign("_Comment__meobj", "_meobj", "value"),
              Assign("_Comment__my_comment", "_my_comment", "value"),
              Assign("_Comment__init_done", "", "True")>>]

SeqRange(q) == {q[i] : i \in 1..Len(q)}

\* cls_attrs of line 93
ParamNames == [cls \in Classes |->
    {InitParameters[cls][i].name : i \in 1..Len(InitParameters[cls])}]

AttrNames == [cls \in Classes |-> {InitBody[cls][i].attr : i \in 1..Len(InitBody[cls])}]

\* The names that start with an underscore (key.startswith('_'))
Underscored ==
    {"_Comment__init_done", "_Comment__meobj", "_Comment__my_comment",
      "_MeModel__init_done", "_Notification__client",
      "_Notification__init_done", "_client", "_meobj", "_my_comment",
      "_private"}

StartsWithUnderscore(key) == key \in Underscored

\* The keys a mapping handed to new_from_dict may carry beside the
\* parameters' names: a name no class knows, an underscored one, and the
\* attributes the constructor stores under another name than the parameter's
UnknownKeys(cls) ==
    {"unknown_field", "_private"} \cup ((AttrNames[cls] \ ParamNames[cls]) \ Underscored)

\* Every name a mapping for cls or an instance of cls may hold
ClassNames == [cls \in Classes |->
    ParamNames[cls] \cup AttrNames[cls] \cup UnknownKeys(cls) \cup {InitDoneKey}]

\* The order in which a mapping is iterated: the parameters' names as the
\* constructor lists them, then the other keys (one insertion order is followed)
KeyOrder == [cls \in Classes |->
    LET ps == InitParameters[cls]
        others == SelectSeq(<<"unknown_field", "type", "location_latitude",
                              "location_longitude", "_private">>,
                            LAMBDA k : k \in UnknownKeys(cls))
    IN  [i \in 1..Len(ps) |-> ps[i].name] \o others]

\* A mapping with no key
EmptyMapping == [cls \in Classes |-> [k \in ClassNames[cls] |-> Absent]]

\* Line 91 with only the test on None
Falsy_NoneOnly(data) == data = PyNone

\* not data (line 91): None, or a mapping with no key
Falsy(data) == data = PyNone \/ \A k \in DOMAIN data : data[k] = Absent

\* list(json_data): the keys present, in iteration order
KeysOf(cls, m) == SelectSeq(KeyOrder[cls], LAMBDA k : m[k] # Absent)

\* The keys the loop of lines 101-109 does something with: those that fail
\* the test of line 102 (the others are passed over)
UnacceptedKeys(cls, m) == SelectSeq(KeysOf(cls, m), LAMBDA k : k \notin ParamNames[cls])

\* The parameters without a default
RequiredOf == [cls \in Classes |->
    {InitParameters[cls][i].name : i \in {j \in 1..Len(InitParameters[cls]) :
        InitParameters[cls][j].required}}]

\* The required parameters the keyword arguments leave out
MissingRequired(cls, kw) == {p \in RequiredOf[cls] : kw[p] = Absent}

\* The parameters' defaults
DefaultOf == [cls \in Classes |-> [p \in ParamNames[cls] |->
    InitParameters[cls][CHOOSE j \in 1..Len(InitParameters[cls]) :
                            InitParameters[cls][j].name = p].default]]

\* The value a parameter is bound to: the keyword's, or the default
Bound(cls, kw, p) == IF kw[p] # Absent THEN kw[p] ELSE DefaultOf[cls][p]

\* The right-hand side of an assignment of __init__: [raised, v].
\* A User hydrated from the mapping b (None from None)
User(b) == IF b.ty = "dict" THEN [ty |-> "User", s |-> b.s] ELSE PyNone

\* User.new_from_json_dict(author) gives None for None and, for a mapping
\* (a value of type "dict" whose text is the author's uuid), a User with that
\* uuid; the comment_likes comprehension is followed for no likes only.
Converted(cls, kw, a) ==
    CASE a.how = "True" -> [raised |-> FALSE, v |-> PyTrue]
      [] a.how = "parse_date" -> parse_date_time(Bound(cls, kw, a.param))
      [] a.how = "User" -> [raised |-> FALSE, v |-> User(Bound(cls, kw, a.param))]
      [] a.how = "Users" -> [raised |-> FALSE, v |-> PyNone]
      [] OTHER -> [raised |-> FALSE, v |-> Bound(cls, kw, a.param)]

\* One assignment of __init__ on the __dict__ d: [out, d]
InitAssign(cls, kw, d, a) ==
    LET c == Converted(cls, kw, a)
    IN  IF c.raised THEN [out |-> "ValueError", d |-> d]
        ELSE LET r == Model__setattr__(cls, d, a.attr, c.v)
             IN  [out |-> IF r.raised THEN "MeException" ELSE "ok", d |-> r.d]

\* cls.__init__(**kw) from assignment i on, st being [out, d] so far
RECURSIVE InitFrom(_, _, _, _)
InitFrom(cls, kw, st, i) ==
    IF st.out # "ok" \/ i > Len(InitBody[cls]) THEN st
    ELSE InitFrom(cls, kw, InitAssign(cls, kw, st.d, InitBody[cls][i]), i + 1)

\* The constructor with the required parameters taken as optional
New_NoRequired(cls, kw) == InitFrom(cls, kw, [out |-> "ok", d |-> EmptyMapping[cls]], 1)

\* cls(**json_data), line 110: a missing required parameter is a TypeError
New(cls, kw) ==
    IF MissingRequired(cls, kw) # {} THEN [out |-> "TypeError", d |-> EmptyMapping[cls]]
    ELSE InitFrom(cls, kw, [out |-> "ok", d |-> EmptyMapping[cls]], 1)

NoInstance == <<>>

\* A thread about to call cls.new_from_dict(data, _client=client, **kwargs)
CallOf(cls, data, client, kwargs) ==
    [pc |-> "L91", cls |-> cls, data |-> data, client |-> client, kwargs |-> kwargs,
     json_data |-> <<>>, keys |-> <<>>, out |-> "running", inst |-> NoInstance]

\* Line 103 without the test on IGNORED_KEYS
Unseen_Always(key, ignored) == ~StartsWithUnderscore(key)

\* Line 103: the key was not warned about and is not underscored
Unseen(key, ignored) == key \notin SeqRange(ignored) /\ ~StartsWithUnderscore(key)

\* One step of new_from_dict by a thread: th is the thread's position and
\* locals, ignored the module's IGNORED_KEYS, log the logger's output.
\*   L91   lines 91-99: the early return, data['_client'], the copy, kwargs
\*   L101  lines 101-103: next key not in cls_attrs, the test on IGNORED_KEYS
\*   L104  line 104: IGNORED_KEYS.append(key)
\*   L105  lines 105-108: the warning
\*   L109  line 109: del json_data[key]
\*   L110  lines 110-111: the constructor
new_from_dict_step(th, ignored, log) ==
    LET same(t) == [th |-> t, ignored |-> ignored, log |-> log]
        key == Head(th.keys)
    IN
    CASE th.pc = "L91" ->
            IF Falsy(th.data)
            THEN same([th EXCEPT !.pc = "done", !.out = "None"])
            ELSE LET d1 == IF "_client" \in ParamNames[th.cls]
                           THEN [th.data EXCEPT !["_client"] = th.client]
                           ELSE th.data
                     j == [k \in DOMAIN d1 |->
                             IF th.kwargs[k] # Absent THEN th.kwargs[k] ELSE d1[k]]
                 IN  same([th EXCEPT !.pc = "L101", !.data = d1, !.json_data = j,
                                     !.keys = UnacceptedKeys(th.cls, j)])
      [] th.pc = "L101" ->
            IF th.keys = <<>> THEN same([th EXCEPT !.pc = "L110"])
            ELSE IF Unseen(key, ignored)
            THEN same([th EXCEPT !.pc = "L104"])
            ELSE same([th EXCEPT !.pc = "L109"])
      [] th.pc = "L104" ->
            [th |-> [th EXCEPT !.pc = "L105"], ignored |-> Append(ignored, key),
             log |-> log]
      [] th.pc = "L105" ->
            [th |-> [th EXCEPT !.pc = "L109"], ignored |-> ignored,
             log |-> Append(log, [cls |-> th.cls, key |-> key])]
      [] th.pc = "L109" ->
            same([th EXCEPT !.pc = "L101", !.keys = Tail(th.keys),
                            !.json_data = [th.json_data EXCEPT ![key] = Absent]])
      [] th.pc = "L110" ->
            LET r == New(th.cls, th.json_data)
            IN  same([th EXCEPT !.pc = "done", !.out = r.out,
                                !.inst = IF r.out = "ok" THEN r.d ELSE NoInstance])
      [] OTHER -> same(th)

\* A call run to its end with no other thread in between; st is [th, ignored, log]
RECURSIVE RunCall(_)
RunCall(st) ==
    IF st.th.pc = "done" THEN st
    ELSE RunCall(new_from_dict_step(st.th, st.ignored, st.log))

\* cls.new_from_dict(data, _client=client, **kwargs) called sequentially:
\* [out, inst, data, ignored, log]; data is the caller's mapping afterwards
new_from_dict(cls, data, client, kwargs, ignored, log) ==
    LET r == RunCall([th |-> CallOf(cls, data, client, kwargs), ignored |-> ignored,
                      log |-> log])
    IN  [out |-> r.th.out, inst |-> r.th.inst, data |-> r.th.data,
         ignored |-> r.ignored, log |-> r.log]

\* MeModel.as_dict: the attributes whose name has no leading underscore,
\* dates and datetimes as their str() (the values of the model are scalars)
as_dict(d) ==
    [k \in DOMAIN d |->
        IF d[k] = Absent \/ StartsWithUnderscore(k) THEN Absent
        ELSE IF d[k].ty \in {"date", "datetime"} THEN Str(d[k])
        ELSE d[k]]

\* The names in the order sorted() gives them
SortedNames ==
    <<"_Comment__init_done", "_Comment__meobj", "_Comment__my_comment",
      "_MeModel__init_done", "_Notification__client",
      "_Notification__init_done", "_client", "_meobj", "_my_comment",
      "_private", "access", "author", "call_type", "called_at", "category",
      "comment_likes", "comments_blocked", "country_code", "created_at",
      "date_of_birth", "delivery_method", "distribution_date", "duration",
      "id", "is_liked", "is_read", "latitude", "like_count",
      "location_latitude", "location_longitude", "longitude", "message",
      "message_body", "message_category", "message_lang", "message_subject",
      "modified_at", "name", "new_name", "notification_id", "other_field",
      "phone_number", "profile_picture", "profile_uuid", "pwd_token",
      "refresh", "sender", "status", "tag", "type", "unknown_field", "uuid">>

\* json.dumps of a scalar
JsonDumps(v) ==
    CASE v.ty = "none" -> "null"
      [] v.ty = "bool" -> IF v.s = "True" THEN "true" ELSE "false"
      [] v.ty = "int" -> v.s
      [] OTHER -> "\"" \o v.s \o "\""

\* The scalars JSON text is parsed into
JsonValues ==
    {PyNone, PyTrue, PyFalse} \cup {PyInt(x) : x \in {"0", "1", "2", "555"}}
        \cup {PyStrV(x) : x \in {"A", "B", "missed", IsoText, IsoTextStr}}

\* json.loads of the text of a scalar
JsonLoads(t) == CHOOSE v \in JsonValues : JsonDumps(v) = t

\* MeModel.as_json: the members of the JSON object, in output order
as_json(d) ==
    LET m == as_dict(d)
        ks == SelectSeq(SortedNames, LAMBDA k : k \in DOMAIN m /\ m[k] # Absent)
    IN  [i \in 1..Len(ks) |-> [key |-> ks[i], text |-> JsonDumps(m[ks[i]])]]

\* json.loads(text) as a mapping for cls
JsonObject(cls, js) ==
    [k \in ClassNames[cls] |->
        IF \E i \in 1..Len(js) : js[i].key = k
        THEN JsonLoads(js[CHOOSE i \in 1..Len(js) : js[i].key = k].text)
        ELSE Absent]

\* Python's == on scalars: True == 1 and False == 0
PyKey(v) ==
    IF v.ty = "bool" THEN PyInt(IF v.s = "True" THEN "1" ELSE "0") ELSE v

\* dict == dict
DictEq(x, y) ==
    \A k \in DOMAIN x \cup DOMAIN y :
        LET xv == IF k \in DOMAIN x THEN x[k] ELSE Absent
            yv == IF k \in DOMAIN y THEN y[k] ELSE Absent
        IN  PyKey(xv) = PyKey(yv)

\* __eq__ comparing the two __dict__ instead of what as_dict exports
MeModel__eq__ByDict(d, other) == d = other

\* MeModel.__eq__(self, other) for other an instance
MeModel__eq__(d, other) == DictEq(as_dict(d), as_dict(other))

\* hasattr(self, 'id') taken for true
HasId_Always(d) == TRUE

\* Line 167: hasattr(self, 'id')
HasId(d) == "id" \in DOMAIN d /\ d["id"] # Absent

\* MeModel.__hash__: [out, h]; h stands for hash(self.id)
MeModel__hash__(d) ==
    IF HasId(d) THEN [out |-> "ok", h |-> PyKey(GetAttr(d, "id", PyNone))]
    ELSE [out |-> "TypeError", h |-> Absent]

---------------------------------------------------------------------------
(* The callers of new_from_dict: the mappings they hand over *)

MaxCalls == 2

\* The parameters a caller passes beside the mapping (_client, **kwargs)
ContextParams == {"_client", "_meobj", "_my_comment"}

\* The value a mapping carries for a parameter
HValue(p) ==
    CASE p \in {"created_at", "modified_at", "distribution_date"} -> PyStrV(IsoText)
      [] p = "call_type" -> PyStrV("missed")
      [] p \in {"latitude", "longitude"} -> PyInt("2")
      [] OTHER -> Hydrated(p)

\* A mapping with every parameter of cls but the context and the nested users
Full(cls) ==
    [k \in ClassNames[cls] |->
        IF k \in ParamNames[cls] \ (ContextParams \cup {"author", "comment_likes"})
        THEN HValue(k) ELSE Absent]

\* The parameter the mappings differ in
VariedParam(cls) ==
    CASE cls = "AuthData" -> "access"
      [] cls = "Notification" -> "created_at"
      [] cls = "Comment" -> "message"
      [] cls = "Location" -> "latitude"
      [] OTHER -> "name"

\* Full, Full with the parameter left out, and for Notification Full with
\* a date that is not in the format
Bases(cls) ==
    {Full(cls), [Full(cls) EXCEPT ![VariedParam(cls)] = Absent]}
        \cup (IF cls = "Notification"
              THEN {[Full(cls) EXCEPT ![VariedParam(cls)] = PyStrV("B")]} ELSE {})

WithUnknown(m, U) == [k \in DOMAIN m |-> IF k \in U THEN PyInt("1") ELSE m[k]]

\* The sets of unknown keys a mapping carries
UnknownSets(cls) == {{}, {"unknown_field"}, {"_private"}, UnknownKeys(cls)}

\* The data argument: None, {}, and mappings with and without unknown keys
HData(cls) ==
    {PyNone, EmptyMapping[cls]}
        \cup {WithUnknown(b, U) : b \in Bases(cls), U \in UnknownSets(cls)}

\* The **kwargs of a call
HKwargs(cls) ==
    CASE cls = "Comment" ->
            {EmptyMapping[cls], [EmptyMapping[cls] EXCEPT !["_meobj"] = PyClient]}
      [] cls = "AuthData" ->
            {EmptyMapping[cls], [EmptyMapping[cls] EXCEPT !["unknown_field"] = PyInt("2")]}
      [] OTHER -> {EmptyMapping[cls]}

\* The _client argument
HClients(cls) == IF "_client" \in ParamNames[cls] THEN {PyClient, PyNone} ELSE {PyNone}

\* The keys line 109 deletes in a call: those of the merged mapping that
\* are no parameter of cls
DroppedKeys(cls, data, kwargs) ==
    IF Falsy(data) THEN {}
    ELSE {k \in ClassNames[cls] \ ParamNames[cls] : data[k] # Absent \/ kwargs[k] # Absent}

HNoOp == [op |-> "none", cls |-> "", data |-> PyNone, kwargs |-> <<>>, client |-> PyNone,
          out |-> "None", inst |-> NoInstance, after |-> PyNone,
          ignored0 |-> <<>>, log0 |-> <<>>, dropped |-> {}]

HIdle ==
    /\ IGNORED_KEYS = <<>>
    /\ logger = <<>>
    /\ thr = <<>>
    /\ obj = <<>>
    /\ hlast = <<>>
    /\ hops = 0

\* A process that has hydrated nothing yet
HInit ==
    /\ IGNORED_KEYS = <<>>
    /\ logger = <<>>
    /\ thr = <<>>
    /\ obj = <<>>
    /\ hlast = HNoOp
    /\ hops = 0

\* One call of cls.new_from_dict(data, _client=client, **kwargs)
Hydrate ==
    /\ hops < MaxCalls
    /\ \E cls \in Classes : \E data \in HData(cls) : \E kwargs \in HKwargs(cls) :
       \E client \in HClients(cls) :
         \E r \in {new_from_dict(cls, data, client, kwargs, IGNORED_KEYS, logger)} :
             /\ IGNORED_KEYS' = r.ignored
             /\ logger' = r.log
             /\ hlast' = [op |-> "hydrate", cls |-> cls, data |-> data, kwargs |-> kwargs,
                          client |-> client, out |-> r.out, inst |-> r.inst,
                          after |-> r.data, ignored0 |-> IGNORED_KEYS, log0 |-> logger,
                          dropped |-> hlast.dropped \cup DroppedKeys(cls, data, kwargs)]
    /\ hops' = hops + 1
    /\ UNCHANGED <<thr, obj>>
    /\ UNCHANGED <<pvars, vvars, mvars>>

HNext == Hydrate

---------------------------------------------------------------------------
(* Two threads in new_from_dict at once *)

Threads == {1, 2}

IdleThread == [pc |-> "idle", cls |-> "", data |-> PyNone, client |-> PyNone,
               kwargs |-> <<>>, json_data |-> <<>>, keys |-> <<>>, out |-> "running",
               inst |-> NoInstance]

\* The classes and mappings the threads hydrate: each mapping has unknown keys
TClasses == {"AuthData", "Call"}

TData(cls) == {WithUnknown(Full(cls), U) : U \in (SUBSET UnknownKeys(cls)) \ {{}}}

TInit ==
    /\ IGNORED_KEYS = <<>>
    /\ logger = <<>>
    /\ thr = [t \in Threads |-> IdleThread]
    /\ obj = <<>>
    /\ hlast = <<>>
    /\ hops = 0

\* Thread t enters new_from_dict
ThreadCall(t) ==
    /\ thr[t].pc = "idle"
    /\ \E cls \in TClasses : \E data \in TData(cls) :
         thr' = [thr EXCEPT ![t] = CallOf(cls, data, PyNone, EmptyMapping[cls])]
    /\ UNCHANGED <<IGNORED_KEYS, logger, obj, hlast, hops>>
    /\ UNCHANGED <<pvars, vvars, mvars>>

\* Thread t runs its next statement
ThreadStep(t) ==
    /\ thr[t].pc \notin {"idle", "done"}
    /\ LET n == new_from_dict_step(thr[t], IGNORED_KEYS, logger)
       IN  /\ thr' = [thr EXCEPT ![t] = n.th]
           /\ IGNORED_KEYS' = n.ignored
           /\ logger' = n.log
    /\ UNCHANGED <<obj, hlast, hops>>
    /\ UNCHANGED <<pvars, vvars, mvars>>

TNext == \E t \in Threads : ThreadCall(t) \/ ThreadStep(t)

---------------------------------------------------------------------------
(* The holder of two instances: compares, hashes, serialises, assigns *)

MaxObjOps == 2

\* The mappings instances are made from
OData(cls) == {Full(cls), [Full(cls) EXCEPT ![VariedParam(cls)] = PyStrV("B")]}

\* The context they are made with
OKwargs(cls) ==
    IF cls = "Comment"
    THEN {[EmptyMapping[cls] EXCEPT !["_meobj"] = PyClient],
          [EmptyMapping[cls] EXCEPT !["_meobj"] = PyClient, !["_my_comment"] = PyTrue]}
    ELSE {EmptyMapping[cls]}

Made(cls, data, kwargs) == new_from_dict(cls, data, PyClient, kwargs, <<>>, <<>>)

\* An instance in a slot: its class, what it was made from, its __dict__,
\* whether an assignment has been committed on it since
Slot(cls, data, kwargs) ==
    [cls |-> cls, src |-> data, kwargs |-> kwargs, d |-> Made(cls, data, kwargs).inst,
     assigned |-> FALSE]

ONoOp == [op |-> "none", out |-> "ok", ret |-> FALSE, h |-> Absent, json |-> <<>>]

NoSlot == [cls |-> "", src |-> PyNone, kwargs |-> <<>>, d |-> NoInstance, assigned |-> FALSE]

\* A caller that holds no instance yet
OInit ==
    /\ IGNORED_KEYS = <<>>
    /\ logger = <<>>
    /\ thr = <<>>
    /\ obj = [a |-> NoSlot, b |-> NoSlot]
    /\ hlast = ONoOp
    /\ hops = 0

\* The caller hydrates two instances, each from a mapping
ObjMake ==
    /\ obj.a = NoSlot
    /\ \E ca \in Classes : \E cb \in Classes :
       \E da \in OData(ca) : \E db \in OData(cb) :
       \E ka \in OKwargs(ca) : \E kb \in OKwargs(cb) :
       \E sa \in {Slot(ca, da, ka)} : \E sb \in {Slot(cb, db, kb)} :
         /\ sa.d # NoInstance
         /\ sb.d # NoInstance
         /\ obj' = [a |-> sa, b |-> sb]
    /\ UNCHANGED <<IGNORED_KEYS, logger, thr, hlast, hops>>
    /\ UNCHANGED <<pvars, vvars, mvars>>

\* obj.a.<key> = value
ObjSetAttr ==
    /\ obj.a # NoSlot
    /\ hops < MaxObjOps
    /\ \E key \in Mutable(obj.a.cls) \cup {"id"} : \E value \in MValues :
         LET r == Model__setattr__(obj.a.cls, obj.a.d, key, value)
         IN  /\ obj' = [obj EXCEPT !.a.d = r.d,
                                   !.a.assigned = obj.a.assigned \/ ~r.raised]
             /\ hlast' = [ONoOp EXCEPT !.op = "setattr",
                              !.out = IF r.raised THEN "MeException" ELSE "ok"]
    /\ hops' = hops + 1
    /\ UNCHANGED <<IGNORED_KEYS, logger, thr>>
    /\ UNCHANGED <<pvars, vvars, mvars>>

\* obj.a == obj.b
ObjCompare ==
    /\ obj.a # NoSlot
    /\ hops < MaxObjOps
    /\ hlast' = [ONoOp EXCEPT !.op = "eq", !.ret = MeModel__eq__(obj.a.d, obj.b.d)]
    /\ hops' = hops + 1
    /\ UNCHANGED <<IGNORED_KEYS, logger, thr, obj>>
    /\ UNCHANGED <<pvars, vvars, mvars>>

\* hash(obj.a)
ObjHash ==
    /\ obj.a # NoSlot
    /\ hops < MaxObjOps
    /\ LET r == MeModel__hash__(obj.a.d)
       IN  hlast' = [ONoOp EXCEPT !.op = "hash", !.out = r.out, !.h = r.h]
    /\ hops' = hops + 1
    /\ UNCHANGED <<IGNORED_KEYS, logger, thr, obj>>
    /\ UNCHANGED <<pvars, vvars, mvars>>

\* obj.b = cls.new_from_dict(json.loads(obj.a.as_json()), <the context of a>)
ObjRoundTrip ==
    /\ obj.a # NoSlot
    /\ hops < MaxObjOps
    /\ \E js \in {as_json(obj.a.d)} :
       \E r \in {new_from_dict(obj.a.cls, JsonObject(obj.a.cls, js), PyClient,
                               obj.a.kwargs, IGNORED_KEYS, logger)} :
           /\ hlast' = [ONoOp EXCEPT !.op = "roundtrip", !.out = r.out, !.json = js]
           /\ obj' = IF r.out = "ok"
                     THEN [obj EXCEPT !.b = [cls |-> obj.a.cls, src |-> r.data,
                                             kwargs |-> obj.a.kwargs, d |-> r.inst,
                                             assigned |-> FALSE]]
                     ELSE obj
           /\ IGNORED_KEYS' = r.ignored
           /\ logger' = r.log
    /\ hops' = hops + 1
    /\ UNCHANGED thr
    /\ UNCHANGED <<pvars, vvars, mvars>>

ONext == ObjMake \/ ObjSetAttr \/ ObjCompare \/ ObjHash \/ ObjRoundTrip

---------------------------------------------------------------------------
(* Comment: approve, edit, delete, like, unlike *)

\* What a call through the client answers: a true result, a false one, or it raises
Answers == {"true", "false", "raise"}

\* int(v) for the counts the model reaches
IntOf(v) == CHOOSE i \in -9..9 : ToString(i) = v.s

\* v + n on ints
PyAdd(v, n) == PyInt(ToString(IntOf(v) + n))

\* The outcome of a method: how it ended, what it returned, the __dict__
\* afterwards, the calls it made through the client
CRes(out, ret, d, calls) == [out |-> out, ret |-> ret, d |-> d, calls |-> calls]

\* self.<key> = value, then return True
SetAndReturnTrue(d, key, value, calls) ==
    LET r == Model__setattr__("Comment", d, key, value)
    IN  IF r.raised THEN CRes("MeException", PyNone, d, calls)
        ELSE CRes("ok", PyTrue, r.d, calls)

ClientCall(method, arg) == <<[method |-> method, arg |-> arg]>>

\* approve() with the ownership test of lines 79-80 left out
Comment_approve_AnyComment(d, ans) ==
    IF d["status"] = PyStrV("approved") THEN CRes("ok", PyTrue, d, <<>>)
    ELSE IF ~Truthy(d["id"]) THEN CRes("ok", PyFalse, d, <<>>)
    ELSE IF ans = "raise"
    THEN CRes("MeApiException", PyNone, d, ClientCall("approve_comment", d["id"]))
    ELSE IF ans = "true"
    THEN SetAndReturnTrue(d, "status", PyStrV("approved"),
                          ClientCall("approve_comment", d["id"]))
    ELSE CRes("ok", PyFalse, d, ClientCall("approve_comment", d["id"]))

\* Comment.approve
Comment_approve(d, ans) ==
    IF ~Truthy(d["_Comment__my_comment"]) THEN CRes("MeException", PyNone, d, <<>>)
    ELSE IF d["status"] = PyStrV("approved") THEN CRes("ok", PyTrue, d, <<>>)
    ELSE IF ~Truthy(d["id"]) THEN CRes("ok", PyFalse, d, <<>>)
    ELSE IF ans = "raise"
    THEN CRes("MeApiException", PyNone, d, ClientCall("approve_comment", d["id"]))
    ELSE IF ans = "true"
    THEN SetAndReturnTrue(d, "status", PyStrV("approved"),
                          ClientCall("approve_comment", d["id"]))
    ELSE CRes("ok", PyFalse, d, ClientCall("approve_comment", d["id"]))

\* Comment.edit: publish_comment returns a pair (comment, flag), which is
\* true as a condition whatever the flag, so line 108 is never reached
Comment_edit(d, new_msg, ans) ==
    IF d["author"].ty # "User" THEN CRes("AttributeError", PyNone, d, <<>>)
    ELSE IF d["author"].s # ClientUuid THEN CRes("MeException", PyNone, d, <<>>)
    ELSE IF ans = "raise"
    THEN CRes("MeApiException", PyNone, d, ClientCall("publish_comment", d["profile_uuid"]))
    ELSE LET r == Model__setattr__("Comment", d, "message", new_msg)
         IN  IF r.raised
             THEN CRes("MeException", PyNone, d,
                       ClientCall("publish_comment", d["profile_uuid"]))
             ELSE SetAndReturnTrue(r.d, "status", PyStrV("waiting"),
                                   ClientCall("publish_comment", d["profile_uuid"]))

\* Comment.delete
Comment_delete(d, ans) ==
    IF ~Truthy(d["_Comment__my_comment"]) THEN CRes("MeException", PyNone, d, <<>>)
    ELSE IF d["status"] = PyStrV("ignored") THEN CRes("ok", PyTrue, d, <<>>)
    ELSE IF ~Truthy(d["id"]) THEN CRes("ok", PyFalse, d, <<>>)
    ELSE IF ans = "raise"
    THEN CRes("MeApiException", PyNone, d, ClientCall("delete_comment", d["id"]))
    ELSE IF ans = "true"
    THEN SetAndReturnTrue(d, "status", PyStrV("ignored"),
                          ClientCall("delete_comment", d["id"]))
    ELSE CRes("ok", PyFalse, d, ClientCall("delete_comment", d["id"]))

\* Lines 138-143 and 153-158: like (n = 1) and unlike (n = -1); None + 1 is
\* a TypeError, raised after the client's call has returned
LikeBy(d, method, n, ans) ==
    IF d["status"] # PyStrV("approved") THEN CRes("MeException", PyNone, d, <<>>)
    ELSE IF ans = "raise" THEN CRes("MeApiException", PyNone, d, ClientCall(method, d["id"]))
    ELSE IF ans = "false" THEN CRes("ok", PyFalse, d, ClientCall(method, d["id"]))
    ELSE IF d["like_count"].ty # "int"
    THEN CRes("TypeError", PyNone, d, ClientCall(method, d["id"]))
    ELSE SetAndReturnTrue(d, "like_count", PyAdd(d["like_count"], n),
                          ClientCall(method, d["id"]))

\* Comment.like
Comment_like(d, ans) == LikeBy(d, "like_comment", 1, ans)

\* Comment.unlike
Comment_unlike(d, ans) == LikeBy(d, "unlike_comment", -1, ans)

---------------------------------------------------------------------------
(* The holder of a Comment *)

MaxCommentOps == 3

\* The keyword arguments comments are constructed with
CommentKwargs ==
    {[EmptyMapping["Comment"] EXCEPT
        !["_meobj"] = PyClient, !["message"] = PyStrV("A"),
        !["profile_uuid"] = PyStrV("u-other"),
        !["like_count"] = lc, !["status"] = st, !["id"] = id, !["author"] = au,
        !["_my_comment"] = my] :
      lc \in {Absent, PyInt("0"), PyInt("1")},
      st \in {PyStrV("approved"), PyStrV("waiting"), PyStrV("ignored")},
      id \in {Absent, PyInt("1")},
      au \in {Absent, [ty |-> "dict", s |-> "u-me"], [ty |-> "dict", s |-> "u-other"]},
      my \in {Absent, PyTrue}}

CNoOp == [op |-> "none", out |-> "ok", ret |-> PyNone, calls |-> <<>>, ans |-> "",
          before |-> NoInstance]

\* A caller that holds no comment yet
CInit ==
    /\ IGNORED_KEYS = <<>>
    /\ logger = <<>>
    /\ thr = <<>>
    /\ obj = NoInstance
    /\ hlast = CNoOp
    /\ hops = 0

\* Comment(**kwargs)
CommentMake ==
    /\ obj = NoInstance
    /\ \E kw \in CommentKwargs : \E r \in {New("Comment", kw)} :
         /\ r.out = "ok"
         /\ obj' = r.d
    /\ UNCHANGED <<IGNORED_KEYS, logger, thr, hlast, hops>>
    /\ UNCHANGED <<pvars, vvars, mvars>>

\* What a method call leaves: the instance and the record of the call
Called(op, ans, r) ==
    /\ obj' = r.d
    /\ hlast' = [op |-> op, out |-> r.out, ret |-> r.ret, calls |-> r.calls, ans |-> ans,
                 before |-> obj]
    /\ hops' = hops + 1
    /\ UNCHANGED <<IGNORED_KEYS, logger, thr>>
    /\ UNCHANGED <<pvars, vvars, mvars>>

Approve ==
    /\ obj # NoInstance /\ hops < MaxCommentOps
    /\ \E ans \in Answers : Called("approve", ans, Comment_approve(obj, ans))

Edit ==
    /\ obj # NoInstance /\ hops < MaxCommentOps
    /\ \E ans \in {"true", "raise"} :
         Called("edit", ans, Comment_edit(obj, PyStrV("B"), ans))

Delete ==
    /\ obj # NoInstance /\ hops < MaxCommentOps
    /\ \E ans \in Answers : Called("delete", ans, Comment_delete(obj, ans))

Like ==
    /\ obj # NoInstance /\ hops < MaxCommentOps
    /\ \E ans \in Answers : Called("like", ans, Comment_like(obj, ans))

Unlike ==
    /\ obj # NoInstance /\ hops < MaxCommentOps
    /\ \E ans \in Answers : Called("unlike", ans, Comment_unlike(obj, ans))

CNext == CommentMake \/ Approve \/ Edit \/ Delete \/ Like \/ Unlike

---------------------------------------------------------------------------
(* Account.block_numbers *)

\* A list with x put in its place among the sorted q
RECURSIVE Insert(_, _)
Insert(x, q) ==
    IF q = <<>> THEN <<x>>
    ELSE IF x <= Head(q) THEN <<x>> \o q
    ELSE <<Head(q)>> \o Insert(x, Tail(q))

RECURSIVE Ascending(_)
Ascending(q) == IF q = <<>> THEN <<>> ELSE Insert(Head(q), Ascending(Tail(q)))

\* list.sort(): sorts the list in place and returns None
list_sort(q) == [ret |-> PyNone, list |-> Ascending(q)]

\* Account.block_numbers(numbers), block_numbers_raw answering with the
\* entries whose phone numbers are `echoed`: [ret, numbers], numbers the
\* caller's argument afterwards. The argument is [islist, v]: a list v, or
\* the int v[1], which line 378-379 wraps in a list of its own.
block_numbers(numbers, echoed) ==
    LET left == list_sort(echoed)
        right == list_sort(numbers.v)
    IN  [ret |-> (left.ret = right.ret),
         numbers |-> IF numbers.islist THEN [numbers EXCEPT !.v = right.list] ELSE numbers]

---------------------------------------------------------------------------
(* The caller of block_numbers *)

MaxNumbers == 2

Phones == {1, 2, 3}

\* The lists of at most MaxNumbers phone numbers
PhoneLists == UNION {[1..n -> Phones] : n \in 0..MaxNumbers}

BNoOp == [op |-> "none", ret |-> FALSE, echoed |-> <<>>, before |-> <<>>]

\* The caller holds the numbers to block: a list, or a single int
BInit ==
    /\ IGNORED_KEYS = <<>>
    /\ logger = <<>>
    /\ thr = <<>>
    /\ obj \in {[islist |-> TRUE, v |-> q] : q \in PhoneLists}
               \cup {[islist |-> FALSE, v |-> <<n>>] : n \in Phones}
    /\ hlast = BNoOp
    /\ hops = 0

\* me.block_numbers(numbers): the backend echoes some list of numbers
BlockNumbers ==
    /\ hops = 0
    /\ \E echoed \in PhoneLists : \E r \in {block_numbers(obj, echoed)} :
         /\ obj' = r.numbers
         /\ hlast' = [op |-> "block_numbers", ret |-> r.ret, echoed |-> echoed,
                      before |-> obj]
    /\ hops' = hops + 1
    /\ UNCHANGED <<IGNORED_KEYS, logger, thr>>
    /\ UNCHANGED <<pvars, vvars, mvars>>

BNext == BlockNumbers

---------------------------------------------------------------------------
(* The specifications: one holder at a time, the other variables idle *)

ProfileInitial == PInit /\ VIdle /\ MIdle /\ HIdle

SpecProfile == ProfileInitial /\ [][PNext]_vars

ModelsInitial == MInit /\ PIdle /\ VIdle /\ HIdle

SpecModels == ModelsInitial /\ [][MNext]_vars

ValidateInitial == VInit /\ PIdle /\ MIdle /\ HIdle

SpecValidate == ValidateInitial /\ [][VNext]_vars

HydrateInitial == HInit /\ PIdle /\ VIdle /\ MIdle

SpecHydrate == HydrateInitial /\ [][HNext]_vars

ThreadsInitial == TInit /\ PIdle /\ VIdle /\ MIdle

SpecThreads == ThreadsInitial /\ [][TNext]_vars

ObjectsInitial == OInit /\ PIdle /\ VIdle /\ MIdle

SpecObjects == ObjectsInitial /\ [][ONext]_vars

BlockInitial == BInit /\ PIdle /\ VIdle /\ MIdle

SpecBlock == BlockInitial /\ [][BNext]_vars

CommentInitial == CInit /\ PIdle /\ VIdle /\ MIdle

SpecComment == CommentInitial /\ [][CNext]_vars

---------------------------------------------------------------------------
(* Claims about the validators, checked under SpecValidate *)

IsDict(e) == e.isdict

CallsValidated == vFn = "calls" /\ vPhase \in {"validated", "revalidated"}
ContactsValidated == vFn = "contacts" /\ vPhase \in {"validated", "revalidated"}

\* An entry get_calls finds nothing wrong with: a phone number and a known type
CallPasses(e) ==
    /\ e.isdict
    /\ Truthy(DictGet(e.d, "phone_number"))
    /\ DictGet(e.d, "type") \in CallTypes

\* C7: whenever no entry of the list fails validation and at least one entry
\* is a mapping, get_calls returns, and what it returns is every mapping of the
\* caller's list (as normalised in place), in input order, whether or not the
\* entry carried a called_at.
C7_EveryValidatedEntryReturned ==
    (/\ CallsValidated
     /\ \A i \in 1..Len(vArg) : vArg[i].isdict => CallPasses(vArg[i])
     /\ \E i \in 1..Len(vArg) : vArg[i].isdict)
    => /\ vRes.st = "return"
       /\ vRes.list = SelectSeq(vMem, IsDict)

\* C8: a validator applied to a list it returned returns again, and returns
\* an equal list.
C8_ValidatorsIdempotent ==
    vPhase = "revalidated" => (vRes2.st = "return" /\ vRes2.list = vRes.list)

\* A value that is there and is not empty
NonEmpty(v) == v \notin {Absent, PyNone, PyStrV(""), PyInt("0")}

ContactHasNameAndPhoneKey(e) ==
    e.isdict /\ NonEmpty(e.d["name"]) /\ e.d["phone_number"] # Absent

ContactHasNameAndPhone(e) ==
    e.isdict /\ NonEmpty(e.d["name"]) /\ NonEmpty(e.d["phone_number"])

C10_Bare(e) ==
    /\ e.isdict
    /\ e.d["phone_number"].ty = "int" /\ NonEmpty(e.d["phone_number"])
    /\ e.d["type"] \in CallTypes
    /\ \A k \in {"name", "duration", "tag", "called_at"} : e.d[k] = Absent

C10_Expected(e) ==
    MkEntry([name |-> PyStrV(e.d["phone_number"].s), phone_number |-> e.d["phone_number"],
             type |-> e.d["type"], duration |-> PyInt("123"), tag |-> PyNone,
             called_at |-> PyStrV("2022-04-18T05:59:07Z")])

\* C10: when get_calls returns, every entry that had only a phone_number and
\* a valid type is in the output with name = str(phone_number), duration 123,
\* tag None and called_at the sentinel 2022-04-18T05:59:07Z.
C10_BareCallDefaults ==
    (CallsValidated /\ vRes.st = "return") =>
        \A i \in 1..Len(vArg) : C10_Bare(vArg[i]) =>
            \E j \in 1..Len(vRes.list) : vRes.list[j] = C10_Expected(vArg[i])

C10_Witness ==
    /\ CallsValidated /\ vRes.st = "return"
    /\ \E i \in 1..Len(vArg) : C10_Bare(vArg[i])

\* An entry that is a mapping whose type is none of incoming, missed, outgoing
C11_BadType(e) == e.isdict /\ DictGet(e.d, "type") \notin CallTypes

\* C11: get_calls on a list holding a mapping whose type is not one of
\* incoming, missed, outgoing raises MeException and returns no list.
C11_BadTypeRaises ==
    (CallsValidated /\ \E i \in 1..Len(vArg) : C11_BadType(vArg[i])) =>
        vRes.st = "MeException" /\ vRes.list = <<>>

\* C11's case: a good entry first, then one with a phone number and a bad type
C11_Witness ==
    /\ CallsValidated /\ Len(vArg) = 2
    /\ CallPasses(vArg[1]) /\ vArg[1].d["called_at"] = Absent
    /\ C11_BadType(vArg[2]) /\ Truthy(DictGet(vArg[2].d, "phone_number"))
    /\ vRes.st = "MeException"

\* The loop of get_calls gets to entry i: no earlier mapping made it raise
Reached(i) == \A j \in 1..(i - 1) : vArg[j].isdict => CallPasses(vArg[j])

\* C24: get_calls raises "Phone number must be provided!!" exactly when a
\* mapping it gets to has a missing or empty phone_number, with or without a
\* name; a mapping it gets to that has a phone_number keeps a non-empty name
\* as it was, and gets str(phone_number) as its name when it has none.
C24_PhoneErrorIffNoPhone ==
    CallsValidated =>
        /\ (vRes.st = "MeException" /\ vRes.msg = NoPhoneMsg)
           <=> \E i \in 1..Len(vArg) :
                   /\ Reached(i) /\ vArg[i].isdict
                   /\ ~NonEmpty(vArg[i].d["phone_number"])
        /\ \A i \in 1..Len(vArg) :
               (Reached(i) /\ vArg[i].isdict /\ NonEmpty(vArg[i].d["phone_number"])) =>
                   vMem[i].d["name"] =
                       IF NonEmpty(vArg[i].d["name"]) THEN vArg[i].d["name"]
                       ELSE PyStrV(vArg[i].d["phone_number"].s)

\* C24's case: a nameless entry with a phone number got its name, then an
\* entry with a name and no phone number raised
C24_Witness ==
    /\ CallsValidated /\ Len(vArg) = 2
    /\ CallPasses(vArg[1]) /\ vArg[1].d["name"] = Absent
    /\ vMem[1].d["name"] = PyStrV("555")
    /\ vArg[2].isdict /\ vArg[2].d["name"] = PyStrV("A")
    /\ vArg[2].d["phone_number"] = Absent
    /\ vRes.st = "MeException" /\ vRes.msg = NoPhoneMsg

\* C25: every mapping get_calls finished with has the duration the caller
\* gave it, 0 included; 123 is there only where the caller gave no duration.
C25_SuppliedDurationKept ==
    CallsValidated =>
        \A i \in 1..Len(vArg) :
            (Reached(i) /\ CallPasses(vArg[i])) =>
                vMem[i].d["duration"] =
                    IF vArg[i].d["duration"] = Absent THEN DefaultDuration
                    ELSE vArg[i].d["duration"]

\* C30: when get_calls raises, the caller's entries are as they were passed in.
C30_InputUntouchedOnRaise ==
    (CallsValidated /\ vRes.st = "MeException") => vMem = vArg

---------------------------------------------------------------------------
(* Claims about Profile, checked under SpecProfile *)

\* The last operation was an assignment on a profile whose flag was f
Assigned(f) == plast.op = "setattr" /\ plast.before[FlagKey] = f

\* The value an assignment commits (line 300-301: dates are parsed)
Committed(key, value) == IF key = "date_of_birth" THEN parse_date(value) ELSE value

\* C1: on a self-owned profile, an assignment to a whitelisted field (the
\* transport not failing) commits the value when the update call returned a
\* true flag and the backend echoed the requested value, and in every other
\* case raises MeException; when it does not commit, the instance is as it was.
C1_CommitIffServerConfirms ==
    (Assigned(PyTrue) /\ plast.key \in WhiteList /\ plast.out # "MeApiException") =>
        IF plast.flag /\ plast.echo = plast.value
        THEN plast.out = "ok" /\ prof[plast.key] = Committed(plast.key, plast.value)
        ELSE plast.out = "MeException" /\ prof = plast.before

\* C2: on a profile hydrated as someone else's, every assignment raises
\* MeException, makes no update call, sends nothing, and leaves every
\* attribute (the ownership flag included) as it was.
C2_ForeignProfileReadOnly ==
    Assigned(PyFalse) =>
        /\ plast.out = "MeException"
        /\ plast.upd = <<>> /\ plast.sent = <<>>
        /\ prof = plast.before

C2_Witness ==
    /\ Assigned(PyFalse)
    /\ plast.key = "first_name"
    /\ plast.out = "MeException"

C5_RefreshSafeOnForeign ==
    (plast.op = "refresh" /\ plast.before[FlagKey] = PyFalse) =>
        /\ plast.out # "MeException"
        /\ plast.upd = <<>>

\* C6: when refresh() succeeds, the instance's state (every attribute and the
\* ownership flag) is that of get_profile(uuid) for the uuid the instance had,
\* and refresh() returned True exactly when the fetched profile carries the
\* client's own uuid, False otherwise.
C6_RefreshReplacesState ==
    (plast.op = "refresh" /\ plast.out = "ok") =>
        /\ prof = get_profile(server, plast.before["uuid"])
        /\ plast.ret \in {PyTrue, PyFalse}
        /\ plast.ret = PyTrue <=> prof["uuid"] = PyStrV(ClientUuid)
        /\ prof[FlagKey] = plast.ret

\* C6's case: a refresh that brought a field changed on the backend
C6_Witness ==
    /\ plast.op = "refresh" /\ plast.out = "ok"
    /\ prof["first_name"] # plast.before["first_name"]

\* C18: on a self-owned profile, an assignment to any of the eleven
\* whitelisted names makes exactly one update call through the client, with
\* that name and the new value, and the update operation accepts the name (it
\* does not refuse the keyword with a TypeError).
C18_WhitelistedNamesAccepted ==
    (Assigned(PyTrue) /\ plast.key \in WhiteList) =>
        /\ plast.upd = <<[key |-> plast.key, value |-> plast.value]>>
        /\ plast.out # "TypeError"

\* The names a profile-picture value is assigned under
PictureKeys == {"profile_picture", "profile_picture_url"}

\* C19: on a self-owned profile, whenever the assignment of a profile-picture
\* value makes the update call, the value is committed locally whatever the
\* backend echoes (there is no comparison that can reject it).
C19_PictureNeverCompared ==
    (Assigned(PyTrue) /\ plast.key \in PictureKeys /\ plast.upd # <<>>
        /\ plast.out # "MeApiException") =>
        /\ plast.out = "ok"
        /\ prof[plast.key] = plast.value

\* The full name: first_name, a space when both are there, last_name
FullName(d) ==
    LET first_name == d["first_name"]
        last_name == d["last_name"]
    IN  IF Truthy(first_name) /\ Truthy(last_name)
        THEN PyStrV(first_name.s \o " " \o last_name.s)
        ELSE IF Truthy(first_name) THEN Str(first_name)
        ELSE IF Truthy(last_name) THEN Str(last_name)
        ELSE PyStrV("")

\* C21: reading Profile.name never raises and gives first_name, then a space
\* when both names are there, then last_name, whichever of the two is there.
C21_NameIsFullName ==
    plast.op = "name" => (plast.out = "ok" /\ plast.ret = FullName(prof))

\* C23: no assignment to an attribute of the profile and no refresh(), the
\* client's fetch raising or not, takes the instance from an ownership flag
\* of True or False to a flag of None.
C23_FlagNeverLeftNone ==
    [][(/\ ~ProfileUnbound(prof)
        /\ ~(plast'.op = "setattr" /\ plast'.key = FlagKey))
       => ~ProfileUnbound(prof')]_vars

\* C26: the Profile get_profile returns is the caller's own (flag True)
\* exactly when the uuid asked for is the client's uuid, and is someone else's
\* (flag False) otherwise; the Profile get_my_profile returns is always the
\* caller's own.
C26_OwnIffClientUuid ==
    /\ (plast.op = "get_profile" /\ plast.out = "ok") =>
            /\ prof[FlagKey] \in {PyTrue, PyFalse}
            /\ prof[FlagKey] = PyTrue <=> plast.value = PyStrV(ClientUuid)
            /\ prof["uuid"] = plast.value
    /\ (plast.op = "get_my_profile" /\ plast.out = "ok") =>
            /\ prof[FlagKey] = PyTrue
            /\ prof["uuid"] = PyStrV(ClientUuid)

\* C26's case: the client's own uuid asked for through a User, after the
\* holder had someone else's profile
C26_Witness ==
    /\ plast.op = "get_profile" /\ plast.out = "ok" /\ plast.key = "User"
    /\ plast.value = PyStrV(ClientUuid)
    /\ plast.before[FlagKey] = PyFalse
    /\ prof[FlagKey] = PyTrue

---------------------------------------------------------------------------
(* Claims about the other models, checked under SpecModels *)

\* C3: on a constructed AuthData, Contact, Call, Location, Notification or
\* Comment, an assignment to any name outside the class's mutable whitelist
\* (none; is_read; message, status, like_count, comment_likes) raises
\* MeException and changes nothing, and whatever assignments were attempted,
\* every attribute outside the whitelist holds the value construction gave it.
C3_ProtectedAttrsImmutable ==
    /\ (mlast.op = "setattr" /\ mlast.key \notin Mutable(minst.cls)) =>
            mlast.out = "MeException" /\ minst.d = mlast.before
    /\ \A k \in ModelKeys(minst.cls) \ Mutable(minst.cls) :
            minst.d[k] = NewInstance(minst.cls).d[k]

\* C3's case: a Comment whose message was rewritten refuses a new id
C3_Witness ==
    /\ minst.cls = "Comment"
    /\ minst.d["message"] = PyStrV("B")
    /\ mlast.op = "setattr" /\ mlast.key = "id" /\ mlast.out = "MeException"

---------------------------------------------------------------------------
(* Claims about new_from_dict, checked under SpecHydrate *)

\* The last operation hydrated a mapping that is neither None nor empty
Hydrated_NonEmpty == hlast.op = "hydrate" /\ ~Falsy(hlast.data)

\* The mapping of the last call with the client reference and the extra
\* keyword fields merged in
MergedMapping ==
    [k \in ClassNames[hlast.cls] |->
        IF hlast.kwargs[k] # Absent THEN hlast.kwargs[k]
        ELSE IF k = "_client" /\ k \in ParamNames[hlast.cls] THEN hlast.client
        ELSE hlast.data[k]]

\* Its keys that are parameters of the class, and the others
AcceptedKeys == {k \in ParamNames[hlast.cls] : MergedMapping[k] # Absent}
UnacceptedKeysOfCall == {k \in ClassNames[hlast.cls] \ ParamNames[hlast.cls] :
                            MergedMapping[k] # Absent}

\* The accepted part of the mapping
AcceptedMapping ==
    [k \in ClassNames[hlast.cls] |-> IF k \in AcceptedKeys THEN MergedMapping[k] ELSE Absent]

BadDates ==
    {InitBody[hlast.cls][i].param : i \in {j \in 1..Len(InitBody[hlast.cls]) :
        /\ InitBody[hlast.cls][j].how = "parse_date"
        /\ AcceptedMapping[InitBody[hlast.cls][j].param] \notin
                {Absent, PyNone, PyStrV(IsoText)}}}

Warnings(log, key) == Cardinality({i \in 1..Len(log) : log[i].key = key})

\* The number of times a name is in IGNORED_KEYS
Occurrences(q, key) == Cardinality({i \in 1..Len(q) : q[i] = key})

\* C13 as stated: over sequential hydration calls, every unknown name
\* dropped so far has been warned about exactly once, whatever the class.
C13_WarnedOncePerUnknownName ==
    hlast.op = "hydrate" =>
        \A k \in hlast.dropped : Warnings(logger, k) = 1

\* C13 as amended: over sequential hydration calls, every unknown name
\* dropped so far that does not start with an underscore has been warned
\* about exactly once, in the call that first dropped it, whatever the
\* class; a dropped name that starts with an underscore is never warned
\* about; nothing else is warned about; and IGNORED_KEYS holds exactly the
\* names warned about, once each.
C13_WarnedOncePerPublicUnknownName ==
    hlast.op = "hydrate" =>
        /\ \A k \in hlast.dropped :
             Warnings(logger, k) = IF StartsWithUnderscore(k) THEN 0 ELSE 1
        /\ \A i \in 1..Len(logger) : logger[i].key \in hlast.dropped
        /\ \A k \in hlast.dropped :
             Occurrences(IGNORED_KEYS, k) = Warnings(logger, k)
        /\ Len(IGNORED_KEYS) = Len(logger)
        /\ \/ Falsy(hlast.data)
           \/ \A k \in UnacceptedKeysOfCall \ Underscored :
                Warnings(logger, k) - Warnings(hlast.log0, k) =
                    (IF k \in SeqRange(hlast.ignored0) THEN 0 ELSE 1)

\* C13's case: a second call, on another class, drops a name the first
\* call was warned about
C13_Witness ==
    /\ hlast.op = "hydrate" /\ hops = 2
    /\ ~Falsy(hlast.data)
    /\ "unknown_field" \in UnacceptedKeysOfCall
    /\ Len(hlast.log0) = 1
    /\ hlast.log0[1].key = "unknown_field" /\ hlast.log0[1].cls # hlast.cls
    /\ logger = hlast.log0

\* C14: new_from_dict with data None or an empty mapping returns None: it
\* raises nothing, logs no warning, leaves IGNORED_KEYS alone and constructs
\* no instance, for every class and whatever the extra keyword fields.
C14_EmptyDataGivesNone ==
    (hlast.op = "hydrate" /\ (hlast.data = PyNone \/ hlast.data = EmptyMapping[hlast.cls])) =>
        /\ hlast.out = "None"
        /\ hlast.inst = NoInstance
        /\ logger = hlast.log0
        /\ IGNORED_KEYS = hlast.ignored0

\* C14's case: an empty mapping handed over together with an extra keyword
C14_Witness ==
    /\ hlast.op = "hydrate"
    /\ hlast.data = EmptyMapping[hlast.cls]
    /\ hlast.kwargs # EmptyMapping[hlast.cls]
    /\ hlast.out = "None"

\* C29: after new_from_dict the caller's mapping holds exactly the keys and
\* values it held before, whatever was dropped, merged or passed as client.
C29_CallerDataUnchanged ==
    hlast.op = "hydrate" => hlast.after = hlast.data

---------------------------------------------------------------------------
(* Claims about __eq__, __hash__ and as_json, checked under SpecObjects *)

\* What an instance exports under a name: nothing for an underscored name,
\* the text of a date, the value otherwise
Exported(d, k) ==
    IF k \notin DOMAIN d \/ StartsWithUnderscore(k) THEN Absent
    ELSE IF d[k] = Absent THEN Absent
    ELSE IF d[k].ty \in {"date", "datetime"} THEN PyStrV(d[k].s)
    ELSE d[k]

\* Python's == on two scalars
PyEq(v, w) == PyKey(v) = PyKey(w)

SameExport(x, y) ==
    \A k \in DOMAIN x \cup DOMAIN y : PyEq(Exported(x, k), Exported(y, k))

\* The two instances were hydrated from identical mappings by the same class
SameSource == obj.a.cls = obj.b.cls /\ obj.a.src = obj.b.src

\* C15: a == b is true exactly when the two instances export equal
\* field-value mappings (underscored attributes left out); two instances
\* hydrated from identical mappings are equal, and once an assignment has
\* committed a different value to a mutable field of one they are unequal.
C15_EqualIffSameExport ==
    hlast.op = "eq" =>
        /\ hlast.ret <=> SameExport(obj.a.d, obj.b.d)
        /\ (SameSource /\ ~obj.a.assigned /\ ~obj.b.assigned) => hlast.ret
        /\ (SameSource /\ \E k \in Mutable(obj.a.cls) : ~PyEq(obj.a.d[k], obj.b.d[k]))
                => ~hlast.ret

\* C15's case: two Comments hydrated alike, unequal after an assignment to one
C15_Witness ==
    /\ hlast.op = "eq" /\ ~hlast.ret
    /\ SameSource /\ obj.a.assigned
    /\ obj.a.cls = "Comment"
    /\ obj.a.kwargs # obj.b.kwargs

\* C16: hash(instance) returns hash(instance.id) when the instance has an id
\* attribute, and raises TypeError when it has none.
C16_HashIffId ==
    hlast.op = "hash" =>
        IF "id" \in DOMAIN obj.a.d /\ obj.a.d["id"] # Absent
        THEN hlast.out = "ok" /\ hlast.h = PyKey(obj.a.d["id"])
        ELSE hlast.out = "TypeError"

\* C16's case: a Comment, which has an id, is hashed
C16_Witness ==
    /\ hlast.op = "hash" /\ hlast.out = "ok"
    /\ obj.a.cls = "Comment"
    /\ hlast.h = PyInt("1")

\* The place of a name in sorted order
Rank(k) == CHOOSE i \in 1..Len(SortedNames) : SortedNames[i] = k

\* C17: as_json() lists its top-level keys in sorted order, and hydrating
\* the parsed text into the same class with the same context succeeds and
\* gives an instance equal to the original.
C17_JsonRoundTrip ==
    hlast.op = "roundtrip" =>
        /\ \A i, j \in 1..Len(hlast.json) :
             i < j => Rank(hlast.json[i].key) < Rank(hlast.json[j].key)
        /\ hlast.out = "ok"
        /\ MeModel__eq__(obj.a.d, obj.b.d)

---------------------------------------------------------------------------
(* Claims about concurrent hydration, checked under SpecThreads *)

\* Both threads have returned from new_from_dict, and the mapping of each
\* carried the (until then unseen) key unknown_field
BothHydratedUnknown ==
    \A t \in Threads : thr[t].pc = "done" /\ thr[t].data["unknown_field"] # Absent

\* C20: when two threads hydrate mappings carrying the same unseen unknown
\* key, then whatever the interleaving, once both have returned the warning
\* for that key was emitted exactly once and IGNORED_KEYS holds the key
\* exactly once.
C20_ConcurrentWarnedOnce ==
    BothHydratedUnknown =>
        /\ Warnings(logger, "unknown_field") = 1
        /\ Occurrences(IGNORED_KEYS, "unknown_field") = 1

---------------------------------------------------------------------------
(* Claims about block_numbers, checked under SpecBlock *)

\* C22: block_numbers returns True exactly when the phone numbers the
\* backend echoed are the same collection as the numbers asked for (the same
\* numbers as often, in any order), and False when they differ.
C22_TrueIffEchoMatches ==
    hlast.op = "block_numbers" =>
        (hlast.ret <=> Ascending(hlast.echoed) = Ascending(hlast.before.v))

---------------------------------------------------------------------------
(* Claims about Comment, checked under SpecComment *)

\* The like_count of a __dict__ is that of another plus n
CountMoved(d, before, n) ==
    /\ d["like_count"].ty = "int" /\ before["like_count"].ty = "int"
    /\ IntOf(d["like_count"]) = IntOf(before["like_count"]) + n
    /\ d = [before EXCEPT !["like_count"] = d["like_count"]]

\* C27: like() and unlike() on a comment whose status is not 'approved' raise
\* MeException, make no client call and change nothing; on an approved
\* comment, when the client call reports success like_count is one more
\* (like) or one less (unlike) than it was, and when it reports failure the
\* comment is as it was - whatever operations came before.
C27_LikeCountFollowsClient ==
    hlast.op \in {"like", "unlike"} =>
        IF hlast.before["status"] # PyStrV("approved")
        THEN hlast.out = "MeException" /\ hlast.calls = <<>> /\ obj = hlast.before
        ELSE /\ hlast.ans = "true" =>
                    /\ hlast.out = "ok" /\ hlast.ret = PyTrue
                    /\ CountMoved(obj, hlast.before, IF hlast.op = "like" THEN 1 ELSE -1)
             /\ hlast.ans = "false" =>
                    hlast.out = "ok" /\ hlast.ret = PyFalse /\ obj = hlast.before

\* The status approve() and delete() aim at, and the client call they make
Target(op) == IF op = "approve" THEN PyStrV("approved") ELSE PyStrV("ignored")
TargetCall(op) == IF op = "approve" THEN "approve_comment" ELSE "delete_comment"

\* C28: approve() and delete() raise MeException, with no client call and no
\* change, unless the comment was constructed as one on the caller's own
\* profile; otherwise they return True with no client call when the status is
\* already the target; otherwise the status becomes the target and True is
\* returned exactly when the comment has an id and the client call succeeds,
\* and the comment is unchanged and False returned when the call fails or
\* there is no id (no call is made then).
C28_ModerationFollowsClient ==
    hlast.op \in {"approve", "delete"} =>
        LET b == hlast.before
            call == ClientCall(TargetCall(hlast.op), b["id"])
        IN  IF ~Truthy(b["_Comment__my_comment"])
            THEN hlast.out = "MeException" /\ hlast.calls = <<>> /\ obj = b
            ELSE IF b["status"] = Target(hlast.op)
            THEN hlast.out = "ok" /\ hlast.ret = PyTrue /\ hlast.calls = <<>> /\ obj = b
            ELSE IF ~Truthy(b["id"])
            THEN hlast.out = "ok" /\ hlast.ret = PyFalse /\ hlast.calls = <<>> /\ obj = b
            ELSE /\ hlast.calls = call
                 /\ hlast.ans = "true" =>
                        /\ hlast.out = "ok" /\ hlast.ret = PyTrue
                        /\ obj = [b EXCEPT !["status"] = Target(hlast.op)]
                 /\ hlast.ans # "true" => obj = b
                 /\ hlast.ans = "false" => hlast.out = "ok" /\ hlast.ret = PyFalse

\* C28's case: a comment on the caller's profile, ignored by delete(), is
\* approved again by approve()
C28_Witness ==
    /\ hlast.op = "approve" /\ hlast.ans = "true" /\ hlast.ret = PyTrue
    /\ Truthy(obj["_Comment__my_comment"])
    /\ hlast.before["status"] = PyStrV("ignored")
    /\ obj["status"] = PyStrV("approved")
    /\ hops >= 2

=============================================================================
